---- MODULE Spec2Model ----
(***************************************************************************)
(* CultureForward: the conversational survey ("interview") workflow, the   *)
(* theme generation / refinement workflow and the provider and parser      *)
(* configuration of their agents.                                          *)
(*                                                                         *)
(* The interview workflow is the LangGraph graph of                        *)
(* app/llm/workflow/survey_graph.py, driven one turn at a time by          *)
(* survey_chat in app/api/v1/endpoints/survey.py.  One action of the       *)
(* model is one whole HTTP handler; the stages and routers of the graph    *)
(* are operators that the handler's action applies.                        *)
(***************************************************************************)
EXTENDS Integers, Sequences, FiniteSets, TLC

\* ------------------------------------------------------------------ bounds
MaxThreads == 2
MaxTurns == 2
MaxThemes == 5
MaxScript == 4
MaxSessions == 2

\* ------------------------------------------------------- program constants
\* max_retries of the primary (ChatOpenAI) and secondary (Gemini) client
OPENAI_MAX_RETRIES == 3
GEMINI_MAX_RETRIES == 2
\* max_retries of the OutputFixingParser of the evaluation and refiner agents
FIX_MAX_RETRIES == 3
\* Python's None for Optional[int] next_theme_index
None == -99
\* sentinel values of the topic cursor
FEEDBACK_PHASE == -2
NO_MORE_THEMES == -1

\* ------------------------------------------------------------- value sets
ThreadIds == 1..MaxThreads
\* two stored surveys: survey 1 has one theme, survey 2 has MaxThemes themes
SurveyIds == {1, 2}
UserTexts == {"a", "b"}
GeneratedQuestion == "generated question"
ThemeNames == <<"T0", "T1", "T2", "T3", "T4", "T5", "T6", "T7">>

ThemeCount(s) == IF s = 1 THEN 1 ELSE MaxThemes
\* survey["themes"]: position i+1 holds the theme of Python index i
Themes(s) == [i \in 1..ThemeCount(s) |-> ThemeNames[i]]

\* Python list indexing: negative indices count from the end, anything
\* outside -n..n-1 raises IndexError
PyIndexOK(i, n) == (-n <= i) /\ (i < n)
PyIndex(seq, i) == IF i >= 0 THEN seq[i + 1] ELSE seq[Len(seq) + i + 1]

NoThread == 0
\* survey ids handed out by POST /init of the theme workflow
SessionIds == 1..MaxSessions
NoSession == 0
\* no row of the survey table for a session (DB_SAVE off, or the insert failed)
NoSurveyRow == [exists |-> FALSE, themes |-> <<>>, messages |-> <<>>]
NoThemeRun == [survey |-> NoSession, path |-> <<>>, calls |-> 0, failure |-> "none",
               stage |-> "none", db |-> FALSE, had_themes |-> FALSE, had_init |-> FALSE,
               unread |-> FALSE]
NoState == [absent |-> TRUE]
EmptyDict == [k \in {} |-> FALSE]

\* fixed texts of the stages
FINAL_MESSAGE == "Thank you so much for sharing your thoughtful responses!"
COMPLETED_MESSAGE == "Survey completed! Thank you for your participation."
FEEDBACK_PROMPT == "Is there anything you want to add or any feedback you'd like to share?"
THANK_YOU_MESSAGE == "Thank you for completing the survey!"

VARIABLES
    dbThreads,      \* threads table: thread id -> survey id (NoThread: no row)
    dbMessages,     \* survey_messages table: thread id -> rows in created_at order
    checkpoint,     \* MemorySaver: thread id -> last saved channel values
    response,       \* what the last handler call returned to its caller
    lastRun,        \* observation of the last survey_chat call
    turnCount,      \* number of survey_chat calls so far (bounded by MaxTurns)
    allAccept,      \* thread id -> every turn so far got an accepting evaluation
    cursorLog,      \* thread id -> persisted topic cursor after each turn
    gen,            \* one generation call in flight (provider fallback chain)
    fix,            \* one OutputFixingParser.parse call in flight
    stage,          \* one theme stage applied to an input state
    initData,       \* SurveyMemoryStore._init_data: survey id -> stored or not
    themeCheckpoint, \* MemorySaver: survey id -> last saved theme state
    themeDb,        \* survey / messages tables as the theme endpoints use them
    themeRun,       \* observation of the last chat call
    conc            \* survey_chat requests in flight on one thread

interviewVars == <<dbThreads, dbMessages, checkpoint, response, lastRun, turnCount,
                   allAccept, cursorLog>>
themeVars == <<initData, themeCheckpoint, themeDb, themeRun>>

vars == <<dbThreads, dbMessages, checkpoint, response, lastRun, turnCount,
          allAccept, cursorLog, gen, fix, stage, initData, themeCheckpoint,
          themeDb, themeRun, conc>>

\* ------------------------------------------------------------ graph state
\* ConversationalSurveyState as survey_chat builds it (graph_input)
GraphInput_CursorFromNext(t, survey_id, msg, history, state_values) ==
    LET have == state_values # NoState
    IN  [ survey_id           |-> survey_id,
          thread_id           |-> t,
          user_message        |-> msg,
          conversation_history |-> history,
          current_theme_index |-> IF have THEN state_values.next_theme_index ELSE 0,
          theme_responses     |-> IF have THEN state_values.theme_responses ELSE EmptyDict,
          is_answer_complete  |-> FALSE,
          needs_follow_up     |-> FALSE,
          next_theme_index    |-> None,
          agent_response      |-> "",
          all_themes_complete |-> IF have THEN state_values.all_themes_complete ELSE FALSE,
          survey_complete     |-> IF have THEN state_values.survey_complete ELSE FALSE,
          node_status         |-> "" ]

GraphInput(t, survey_id, msg, history, state_values) ==
    LET have == state_values # NoState
    IN  [ survey_id           |-> survey_id,
          thread_id           |-> t,
          user_message        |-> msg,
          conversation_history |-> history,
          current_theme_index |-> IF have THEN state_values.current_theme_index ELSE 0,
          theme_responses     |-> IF have THEN state_values.theme_responses ELSE EmptyDict,
          is_answer_complete  |-> FALSE,
          needs_follow_up     |-> FALSE,
          next_theme_index    |-> None,
          agent_response      |-> "",
          all_themes_complete |-> IF have THEN state_values.all_themes_complete ELSE FALSE,
          survey_complete     |-> IF have THEN state_values.survey_complete ELSE FALSE,
          node_status         |-> "" ]

\* a node's partial update is written over the channels it names
Merge(state, update) ==
    [f \in DOMAIN state |-> IF f \in DOMAIN update THEN update[f] ELSE state[f]]

Raise(e) == [raised |-> TRUE, error |-> e, update |-> EmptyDict]
Return(u) == [raised |-> FALSE, error |-> "", update |-> u]

\* ----------------------------------------------------------------- stages
start_node(state) ==
    IF state.conversation_history = <<>>
    THEN Return([node_status |-> "start_first_question"])
    ELSE Return([node_status |-> "start_evaluation"])

routing_after_start(state) ==
    IF state.conversation_history = <<>> THEN "conversation" ELSE "evaluation"

\* evaluation_node assigns the local all_themes_complete only inside the
\* branches of the if/elif chain; the elif test of line 140 reads it first.
AllThemesCompleteBoundAtElif == FALSE

evaluation_node_TrustsModel(state, ev) ==
    IF ~PyIndexOK(state.current_theme_index, ThemeCount(state.survey_id))
    THEN Raise("IndexError")
    ELSE IF ev.kind # "ok"
    THEN Raise(ev.kind)
    ELSE IF state.survey_complete
    THEN Return([ is_answer_complete  |-> ev.is_answer_complete,
                  needs_follow_up     |-> ev.needs_follow_up,
                  next_theme_index    |-> ev.next_theme_index,
                  theme_responses     |-> state.theme_responses,
                  all_themes_complete |-> TRUE,
                  survey_complete     |-> TRUE,
                  node_status         |-> "evaluation_complete" ])
    ELSE Raise("UnboundLocalError")

\* ev is what self.chain.ainvoke returned: a parsed SurveyEvaluationResponse,
\* or the failure of the provider chain or of the output-fixing parser
evaluation_node(state, ev) ==
    LET current_theme_index == state.current_theme_index
        themes == Themes(state.survey_id)
    IN  IF ~PyIndexOK(current_theme_index, Len(themes))
        THEN Raise("IndexError")                       \* themes[current_theme_index]
        ELSE IF ev.kind # "ok"
        THEN Raise(ev.kind)                            \* self.chain.ainvoke raised
        ELSE IF state.survey_complete
        THEN Return([ is_answer_complete  |-> ev.is_answer_complete,
                      needs_follow_up     |-> ev.needs_follow_up,
                      next_theme_index    |-> NO_MORE_THEMES,
                      theme_responses     |-> state.theme_responses,
                      all_themes_complete |-> TRUE,
                      survey_complete     |-> TRUE,
                      node_status         |-> "evaluation_complete" ])
        ELSE IF ~AllThemesCompleteBoundAtElif
        THEN Raise("UnboundLocalError")                \* elif all_themes_complete and ...
        ELSE Raise("unreachable")                      \* lines 141-177 are never entered

\* The router works on the state dict LangGraph hands it; its assignments to
\* state["current_theme_index"] change that dict only (field state), the
\* channels are written by stage return values alone.
routing_after_evaluation(state) ==
    IF state.survey_complete
    THEN [label |-> "final", state |-> state]
    ELSE IF state.all_themes_complete
    THEN IF state.next_theme_index = FEEDBACK_PHASE
         THEN [label |-> "conversation",
               state |-> [state EXCEPT !.current_theme_index = FEEDBACK_PHASE]]
         ELSE [label |-> "final", state |-> state]
    ELSE IF ~state.is_answer_complete \/ state.needs_follow_up
    THEN [label |-> "conversation", state |-> state]
    ELSE IF state.next_theme_index # None /\ state.next_theme_index >= 0
    THEN [label |-> "conversation",
          state |-> [state EXCEPT !.current_theme_index = state.next_theme_index]]
    ELSE [label |-> "final", state |-> state]

final_node(state) ==
    Return([ all_themes_complete |-> TRUE,
             survey_complete     |-> TRUE,
             agent_response      |-> FINAL_MESSAGE,
             node_status         |-> "survey_complete" ])

\* q is what self.llm.ainvoke returned: free text, or the chain's failure
conversation_node(state, q) ==
    IF state.survey_complete
    THEN Return([agent_response |-> COMPLETED_MESSAGE, node_status |-> "conversation_complete"])
    ELSE IF state.all_themes_complete /\ state.current_theme_index = FEEDBACK_PHASE
    THEN Return([agent_response |-> FEEDBACK_PROMPT, node_status |-> "conversation_complete"])
    ELSE IF state.current_theme_index >= ThemeCount(state.survey_id)
    THEN Return([agent_response |-> THANK_YOU_MESSAGE, node_status |-> "conversation_complete"])
    ELSE IF ~PyIndexOK(state.current_theme_index, ThemeCount(state.survey_id))
    THEN Raise("IndexError")                           \* themes[current_theme_index]
    ELSE IF q.kind # "ok"
    THEN Raise(q.kind)
    ELSE Return([agent_response |-> q.text, node_status |-> "conversation_complete"])

\* ------------------------------------------------------------------ graph
\* the path maps given to add_conditional_edges
AfterStartEdges == [conversation |-> "conversation", evaluation |-> "evaluation"]
AfterEvaluationEdges_WithFinal ==
    [conversation |-> "conversation", end |-> "final", final |-> "final"]
AfterEvaluationEdges == [conversation |-> "conversation", end |-> "final"]

\* A run that ended: saved is what the checkpointer holds afterwards (the
\* values after the last stage that completed), path the stages entered.
Failed(saved, path, e) == [raised |-> TRUE, error |-> e, saved |-> saved, path |-> path]
Ended(saved, path) == [raised |-> FALSE, error |-> "", saved |-> saved, path |-> path]

RunConversation(state, path, q) ==
    LET r == conversation_node(state, q)
        p == Append(path, "conversation")
    IN  IF r.raised THEN Failed(state, p, r.error)
        ELSE Ended(Merge(state, r.update), p)           \* conversation -> END

RunFinal(state, path) ==
    LET r == final_node(state)
    IN  Ended(Merge(state, r.update), Append(path, "final"))   \* final -> END

RunEvaluation(state, path, ev, q) ==
    LET r == evaluation_node(state, ev)
        p == Append(path, "evaluation")
    IN  IF r.raised THEN Failed(state, p, r.error)
        ELSE LET after == Merge(state, r.update)
                 label == routing_after_evaluation(after).label
             IN  IF label \notin DOMAIN AfterEvaluationEdges
                 THEN Failed(state, p, "KeyError")      \* label is no key of the path map
                 ELSE IF AfterEvaluationEdges[label] = "conversation"
                 THEN RunConversation(after, p, q)
                 ELSE RunFinal(after, p)

\* graph.ainvoke(graph_input, config): the input overwrites the channels it
\* names (every field of the state), then the stages run from the entry point.
ainvoke(input, ev, q) ==
    LET r == start_node(input)
        s1 == Merge(input, r.update)
        p == <<"start">>
        label == routing_after_start(s1)
    IN  IF label \notin DOMAIN AfterStartEdges
        THEN Failed(input, p, "KeyError")
        ELSE IF AfterStartEdges[label] = "conversation"
        THEN RunConversation(s1, p, q)
        ELSE RunEvaluation(s1, p, ev, q)

\* --------------------------------------------------------------- database
\* rows of survey_messages as survey_chat reads them back
Row(role, content) == [role |-> role, content |-> content]

\* the parts of a saved state a later turn reads back (state_values.get)
Progress(st) ==
    IF st = NoState
    THEN [current_theme_index |-> 0, theme_responses |-> EmptyDict,
          all_themes_complete |-> FALSE, survey_complete |-> FALSE]
    ELSE [current_theme_index |-> st.current_theme_index,
          theme_responses |-> st.theme_responses,
          all_themes_complete |-> st.all_themes_complete,
          survey_complete |-> st.survey_complete]

\* -------------------------------------------------------------- responses
\* AgentException subclasses of app/utils/errors.py, as the caller sees them
SessionNotFoundError_AsServerError(message) ==
    [status |-> 500, code |-> "session_not_found", message |-> message]
SessionNotFoundError(message) ==
    [status |-> 404, code |-> "session_not_found", message |-> message]
ChatError_AsOk(message) ==
    [status |-> 200, code |-> "ok", message |-> message]
ChatError(message) ==
    [status |-> 500, code |-> "chat_error", message |-> message]
NoResponse == [status |-> 0, code |-> "none", message |-> ""]

\* the topic survey_chat reports as current
CurrentTheme(result) ==
    IF result.survey_complete \/ result.next_theme_index = None
       \/ result.next_theme_index = NO_MORE_THEMES
    THEN "None"
    ELSE IF result.next_theme_index = FEEDBACK_PHASE
    THEN "None"
    ELSE PyIndex(Themes(result.survey_id), result.next_theme_index)

CompletedThemes(result) ==
    {k \in DOMAIN result.theme_responses :
        result.theme_responses[k].complete /\ k # "feedback"}

SurveyChatResponse(result) ==
    [status |-> 200, code |-> "ok", message |-> result.agent_response,
     completed_theme |-> CompletedThemes(result),
     current_theme |-> CurrentTheme(result),
     all_themes_complete |-> result.all_themes_complete,
     survey_complete |-> result.survey_complete]

\* outcomes of the two generation calls of a turn
EvalOutcomes ==
    [kind : {"ok"}, is_answer_complete : BOOLEAN, needs_follow_up : BOOLEAN,
     next_theme_index : {1}]
    \cup [kind : {"provider_error", "parse_error"}, is_answer_complete : {FALSE},
          needs_follow_up : {FALSE}, next_theme_index : {None}]
QuestionOutcomes ==
    {[kind |-> "ok", text |-> GeneratedQuestion], [kind |-> "provider_error", text |-> ""]}

Accepting(ev) == ev.kind = "ok" /\ ev.is_answer_complete /\ ~ev.needs_follow_up

\* which database call of the handler fails (0: none; 5: the call saving the
\* assistant row, the only one made after the graph ran)
DbFailures == 0..5

\* the inputs of one survey_chat call; the generation outcomes are drawn only
\* for the calls whose database reads succeed, no other call reaches the graph
DefaultEval == [kind |-> "provider_error", is_answer_complete |-> FALSE,
                needs_follow_up |-> FALSE, next_theme_index |-> None]
DefaultQuestion == [kind |-> "provider_error", text |-> ""]
TurnInputs ==
    [dbFail : {0, 5}, ev : EvalOutcomes, q : QuestionOutcomes]
    \cup [dbFail : 1..4, ev : {DefaultEval}, q : {DefaultQuestion}]

\* lastRun when the last handler call did not reach the graph
NoRun == [thread |-> NoThread, first |-> FALSE, path |-> <<>>,
          pre |-> Progress(NoState), accepted |-> FALSE, clean |-> FALSE,
          target |-> NoThread, lookup |-> "none", db |-> 0, failure |-> "none",
          unread |-> FALSE]
\* lastRun of a survey_chat call for thread t that ended before the graph ran:
\* lookup says how the thread / survey lookup ended, db which database call
\* of the handler raised (0: none)
EarlyExit(t, lookup, db) == [NoRun EXCEPT !.target = t, !.lookup = lookup, !.db = db]
IdleGen == [agent |-> "none", phase |-> "idle", primary |-> <<>>, secondary |-> <<>>,
            primary_attempts |-> 0, secondary_attempts |-> 0, result |-> "none"]

IdleFix == [agent |-> "none", phase |-> "idle", completions |-> <<>>, repairs |-> <<>>,
            retries |-> 0, repair_calls |-> 0, result |-> "none"]
IdleStage == [phase |-> "idle"]
IdleConc == [phase |-> "idle"]

\* ------------------------------------------------------------------- Init
\* the theme workflow before any request: nothing stored
InitTheme ==
    /\ initData = [s \in SessionIds |-> FALSE]
    /\ themeCheckpoint = [s \in SessionIds |-> NoState]
    /\ themeDb = [s \in SessionIds |-> NoSurveyRow]
    /\ themeRun = NoThemeRun

InitIdle == InitTheme /\ fix = IdleFix /\ stage = IdleStage /\ conc = IdleConc

InitInterview ==
    /\ dbThreads = [t \in ThreadIds |-> NoThread]
    /\ dbMessages = [t \in ThreadIds |-> <<>>]
    /\ checkpoint = [t \in ThreadIds |-> NoState]
    /\ response = NoResponse
    /\ lastRun = NoRun
    /\ turnCount = 0
    /\ allAccept = [t \in ThreadIds |-> TRUE]
    /\ cursorLog = [t \in ThreadIds |-> <<>>]

Init == InitInterview /\ gen = IdleGen /\ InitIdle

\* ---------------------------------------------------------------- actions
\* POST /survey/init
init_survey(s, dbFail) ==
    /\ lastRun' = NoRun
    /\ UNCHANGED <<dbMessages, checkpoint, turnCount, allAccept, cursorLog, gen>>
    /\ themeRun' = NoThemeRun
    /\ UNCHANGED <<initData, themeCheckpoint, themeDb, fix, stage, conc>>
    /\ IF dbFail = 1 \/ s \notin SurveyIds
       THEN \* _get_survey_context returned None
            /\ response' = SessionNotFoundError("Survey not found")
            /\ UNCHANGED dbThreads
       ELSE IF ThemeCount(s) = 0
       THEN /\ response' = ChatError("Survey has no themes defined")
            /\ UNCHANGED dbThreads
       ELSE IF dbFail = 2
       THEN /\ response' = ChatError("DatabaseConnectionError")
            /\ UNCHANGED dbThreads
       ELSE \E t \in ThreadIds :
            /\ dbThreads[t] = NoThread
            /\ \A u \in ThreadIds : u < t => dbThreads[u] # NoThread
            /\ dbThreads' = [dbThreads EXCEPT ![t] = s]
            /\ response' = [status |-> 200, code |-> "ok", message |-> "", thread_id |-> t]

\* POST /survey/chat
survey_chat(t, msg, dbFail, ev, q) ==
    /\ turnCount < MaxTurns
    /\ turnCount' = turnCount + 1
    /\ UNCHANGED <<dbThreads, gen>>
    /\ themeRun' = NoThemeRun
    /\ UNCHANGED <<initData, themeCheckpoint, themeDb, fix, stage, conc>>
    /\ IF dbFail = 1
       THEN /\ response' = ChatError("DatabaseConnectionError")
            /\ lastRun' = EarlyExit(t, "db_error", 1)
            /\ UNCHANGED <<dbMessages, checkpoint, allAccept, cursorLog>>
       ELSE IF dbThreads[t] = NoThread
       THEN /\ response' = SessionNotFoundError("Survey thread not found")
            /\ lastRun' = EarlyExit(t, "no_thread", 0)
            /\ UNCHANGED <<dbMessages, checkpoint, allAccept, cursorLog>>
       ELSE IF dbFail = 2
       THEN /\ response' = SessionNotFoundError("Survey not found")
            /\ lastRun' = EarlyExit(t, "no_survey", 2)
            /\ UNCHANGED <<dbMessages, checkpoint, allAccept, cursorLog>>
       ELSE IF dbFail = 3
       THEN /\ response' = ChatError("DatabaseConnectionError")
            /\ lastRun' = EarlyExit(t, "found", 3)
            /\ UNCHANGED <<dbMessages, checkpoint, allAccept, cursorLog>>
       ELSE LET saved_user == Append(dbMessages[t], Row("user", msg))
            IN  IF dbFail = 4
                THEN /\ response' = ChatError("DatabaseConnectionError")
                     /\ dbMessages' = [dbMessages EXCEPT ![t] = saved_user]
                     /\ lastRun' = EarlyExit(t, "found", 4)
                     /\ UNCHANGED <<checkpoint, allAccept, cursorLog>>
                ELSE LET state_values == checkpoint[t]
                         graph_input == GraphInput(t, dbThreads[t], msg, saved_user, state_values)
                         run == ainvoke(graph_input, ev, q)
                         result == run.saved
                     IN  /\ checkpoint' = [checkpoint EXCEPT ![t] = run.saved]
                         /\ lastRun' = [thread |-> t,
                                        first |-> (checkpoint[t] = NoState /\ dbMessages[t] = <<>>),
                                        path |-> run.path, pre |-> Progress(state_values),
                                        accepted |-> Accepting(ev),
                                        clean |-> (ev.kind = "ok" /\ q.kind = "ok" /\ dbFail = 0),
                                        target |-> t, lookup |-> "found",
                                        db |-> IF run.raised THEN 0 ELSE dbFail,
                                        failure |-> IF run.raised THEN run.error ELSE "none",
                                        unread |-> FALSE]
                         /\ allAccept' = [allAccept EXCEPT
                                ![t] = @ /\ Accepting(ev) /\ q.kind = "ok" /\ dbFail = 0]
                         /\ cursorLog' = [cursorLog EXCEPT
                                ![t] = Append(@, run.saved.current_theme_index)]
                         /\ IF run.raised
                            THEN /\ response' = ChatError(run.error)
                                 /\ dbMessages' = [dbMessages EXCEPT ![t] = saved_user]
                            ELSE IF ~(result.survey_complete \/ result.next_theme_index < 0)
                                    /\ ~PyIndexOK(result.next_theme_index, ThemeCount(result.survey_id))
                            THEN /\ response' = ChatError("IndexError")
                                 /\ dbMessages' = [dbMessages EXCEPT ![t] = saved_user]
                            ELSE IF dbFail = 5
                            THEN /\ response' = ChatError("DatabaseConnectionError")
                                 /\ dbMessages' = [dbMessages EXCEPT ![t] = saved_user]
                            ELSE /\ response' = SurveyChatResponse(result)
                                 /\ dbMessages' = [dbMessages EXCEPT
                                        ![t] = Append(saved_user, Row("assistant", result.agent_response))]

NextInterview ==
    \/ \E s \in SurveyIds \cup {0}, dbFail \in 0..2 : init_survey(s, dbFail)
    \/ \E t \in ThreadIds, msg \in UserTexts, in \in TurnInputs :
          survey_chat(t, msg, in.dbFail, in.ev, in.q)

Spec == Init /\ [][NextInterview]_vars

\* ========================================================================
\* Properties of the interview workflow
\* ========================================================================
\* what a conversation shows after a turn: -1 once the survey is complete,
\* the persisted topic cursor before that
Shown(t) ==
    IF checkpoint[t].survey_complete THEN NO_MORE_THEMES
    ELSE checkpoint[t].current_theme_index

\* the cursor the walk-through of an n-topic interview shows after turn k
ExpectedCursor(n, k) ==
    IF k <= n THEN k - 1 ELSE IF k = n + 1 THEN FEEDBACK_PHASE ELSE NO_MORE_THEMES

\* C1: on a thread over the 5-topic survey, as long as every turn's answer is
\* judged complete with no follow-up (and no generation or database call
\* fails), turn k returns a question (the closing message on turn 7) and
\* leaves the cursor at 0, 1, 2, 3, 4, -2 and finally -1 / survey_complete.
C1_FiveTopicWalk ==
    \A t \in ThreadIds :
        (dbThreads[t] = 2 /\ allAccept[t] /\ Len(cursorLog[t]) \in 1..(MaxThemes + 2))
        => /\ Shown(t) = ExpectedCursor(MaxThemes, Len(cursorLog[t]))
           /\ (lastRun.thread = t => response.status = 200)

\* No turn of the program ever records an answer or raises a completion
\* flag: in every state the program reaches from construction the saved
\* progress of every thread is the initial one.
ProgressNeverMade ==
    \A t \in ThreadIds : Progress(checkpoint[t]) = Progress(NoState)

\* C2: in every saved conversation state survey_complete implies
\* all_themes_complete.
C2_CompleteImpliesAllThemes ==
    \A t \in ThreadIds :
        Progress(checkpoint[t]).survey_complete => Progress(checkpoint[t]).all_themes_complete

\* C3: a topic record that has complete = TRUE is still there, with
\* complete = TRUE, after every later turn.
C3_CompleteStaysComplete ==
    [][\A t \in ThreadIds :
          \A k \in DOMAIN Progress(checkpoint[t]).theme_responses :
              Progress(checkpoint[t]).theme_responses[k].complete
              => /\ k \in DOMAIN Progress(checkpoint'[t]).theme_responses
                 /\ Progress(checkpoint'[t]).theme_responses[k].complete]_vars

\* C4: all_themes_complete and survey_complete, once TRUE in the saved
\* state, are TRUE after every later turn.
C4_FlagsTerminal ==
    [][\A t \in ThreadIds :
          /\ Progress(checkpoint[t]).all_themes_complete
                 => Progress(checkpoint'[t]).all_themes_complete
          /\ Progress(checkpoint[t]).survey_complete
                 => Progress(checkpoint'[t]).survey_complete]_vars

\* C5: the persisted cursor never decreases while it is a real index, the
\* sentinels come in order (-2 before -1, no real index after a sentinel), and
\* -2 is entered in the turn in which the last topic's answer is accepted.
C5_CursorOrder ==
    \A t \in ThreadIds :
        LET log == cursorLog[t]
        IN  /\ \A i, j \in 1..Len(log) :
                   i < j => /\ (log[i] >= 0 /\ log[j] >= 0 => log[i] <= log[j])
                            /\ (log[i] < 0 => log[j] < 0)
                            /\ (log[i] = NO_MORE_THEMES => log[j] = NO_MORE_THEMES)
            /\ (/\ lastRun.thread = t /\ lastRun.clean /\ lastRun.accepted
                /\ ~lastRun.pre.survey_complete
                /\ lastRun.pre.current_theme_index = ThemeCount(dbThreads[t]) - 1)
               => log[Len(log)] = FEEDBACK_PHASE

\* C7: the first inbound turn of a thread (no checkpoint, no stored message)
\* starts at cursor 0, goes start -> conversation without evaluation and
\* leaves a non-empty history; a run entered with history goes to evaluation.
C7_FirstTurnAsksQuestion ==
    lastRun.thread # NoThread =>
        LET t == lastRun.thread
        IN  /\ (lastRun.first /\ lastRun.clean) =>
                   /\ lastRun.pre.current_theme_index = 0
                   /\ lastRun.path = <<"start", "conversation">>
                   /\ Len(checkpoint[t].conversation_history) >= 1
            /\ ~lastRun.first => lastRun.path[2] = "evaluation"

\* C8: every stored user message is followed by the agent message of its
\* turn before the next user message is stored: a turn that failed and is
\* sent again does not leave the user message in the history twice.
C8_HistoryPairsTurns ==
    \A t \in ThreadIds :
        \A i \in 1..(Len(dbMessages[t]) - 1) :
            dbMessages[t][i].role = "user" => dbMessages[t][i + 1].role = "assistant"

\* ========================================================================
\* One turn from a stored conversation state
\* ========================================================================
\* theme_responses records as evaluation_node writes them
CompleteRecord(answer) == [answer |-> answer, complete |-> TRUE]
FollowUpRecord(answer) == [answer |-> answer, complete |-> FALSE, follow_ups |-> <<answer>>]

\* theme_responses with the first k topics of survey s answered
Answered(s, k, feedback) ==
    [name \in {ThemeNames[i] : i \in 1..k} \cup (IF feedback THEN {"feedback"} ELSE {}) |->
        CompleteRecord("a")]

\* the conversation states of the data model for survey s: k topics done and
\* the cursor on topic k, the closing-feedback phase, the finished survey
StoredProgress(s) ==
    LET n == ThemeCount(s)
    IN  {[current_theme_index |-> k, theme_responses |-> Answered(s, k, FALSE),
          all_themes_complete |-> FALSE, survey_complete |-> FALSE] : k \in 0..(n - 1)}
        \cup {[current_theme_index |-> FEEDBACK_PHASE, theme_responses |-> Answered(s, n, FALSE),
               all_themes_complete |-> TRUE, survey_complete |-> FALSE]}
        \cup {[current_theme_index |-> c, theme_responses |-> Answered(s, n, TRUE),
               all_themes_complete |-> TRUE, survey_complete |-> TRUE] :
                    c \in {FEEDBACK_PHASE, NO_MORE_THEMES, n - 1}}

StoredHistory == <<Row("user", "a"), Row("assistant", GeneratedQuestion)>>

StoredState(t, s, pr) ==
    Merge(GraphInput(t, s, "a", StoredHistory, NoState),
          pr @@ [agent_response |-> GeneratedQuestion, node_status |-> "conversation_complete"])

\* thread 1 exists and holds one of the stored states of its survey
InitRun ==
    /\ \E s \in SurveyIds :
          /\ dbThreads = [t \in ThreadIds |-> IF t = 1 THEN s ELSE NoThread]
          /\ \E pr \in StoredProgress(s) :
                checkpoint = [t \in ThreadIds |->
                                 IF t = 1 THEN StoredState(1, s, pr) ELSE NoState]
    /\ dbMessages = [t \in ThreadIds |-> IF t = 1 THEN StoredHistory ELSE <<>>]
    /\ response = NoResponse
    /\ lastRun = NoRun
    /\ turnCount = 0
    /\ allAccept = [t \in ThreadIds |-> TRUE]
    /\ cursorLog = [t \in ThreadIds |-> <<>>]
    /\ gen = IdleGen
    /\ InitIdle

NextRun ==
    \E t \in ThreadIds, msg \in UserTexts, in \in TurnInputs :
        survey_chat(t, msg, in.dbFail, in.ev, in.q)

SpecRun == InitRun /\ [][NextRun]_vars

FallbackAgents == {"conversation", "evaluation", "theme_generator", "theme_refiner"}

\* the primary configured with a single retry
MaxRetries_SingleRetry(agent, tier) == 1

\* max_retries as each agent's __init__ passes it to its two clients
MaxRetries(agent, tier) ==
    IF tier = "primary" THEN OPENAI_MAX_RETRIES ELSE GEMINI_MAX_RETRIES

\* a chain that falls back on the first failure, without retrying
Attempts_NoRetry(agent, tier) == 1

\* a client gives up after its first attempt and max_retries retries
Attempts(agent, tier) == 1 + MaxRetries(agent, tier)

\* what attempt i of a provider does (a provider fails once its script ends)
Outcome(script, i) == IF i <= Len(script) THEN script[i] ELSE "fail"

\* the fallbacks tried after the primary raised
Fallbacks(agent) == <<"secondary">>

Scripts == [1..MaxScript -> {"ok", "fail"}]

InitGen ==
    /\ InitInterview
    /\ InitIdle
    /\ \E a \in FallbackAgents, p \in Scripts, f \in Scripts :
          gen = [agent |-> a, phase |-> "primary", primary |-> p, secondary |-> f,
                 primary_attempts |-> 0, secondary_attempts |-> 0, result |-> "none"]

\* one attempt of the primary client; when its last retry fails the client
\* raises and with_fallbacks moves on to the fallback
primary_attempt ==
    /\ gen.phase = "primary"
    /\ LET i == gen.primary_attempts + 1
       IN  gen' = IF Outcome(gen.primary, i) = "ok"
                  THEN [gen EXCEPT !.primary_attempts = i, !.phase = "done",
                                   !.result = "primary"]
                  ELSE IF i < Attempts(gen.agent, "primary")
                  THEN [gen EXCEPT !.primary_attempts = i]
                  ELSE IF Fallbacks(gen.agent) # <<>>
                  THEN [gen EXCEPT !.primary_attempts = i, !.phase = "secondary"]
                  ELSE [gen EXCEPT !.primary_attempts = i, !.phase = "done",
                                   !.result = "error"]
    /\ UNCHANGED <<interviewVars, themeVars, fix, stage, conc>>

\* one attempt of the fallback client; when it gives up the chain raises
secondary_attempt ==
    /\ gen.phase = "secondary"
    /\ LET i == gen.secondary_attempts + 1
       IN  gen' = IF Outcome(gen.secondary, i) = "ok"
                  THEN [gen EXCEPT !.secondary_attempts = i, !.phase = "done",
                                   !.result = "secondary"]
                  ELSE IF i < Attempts(gen.agent, "secondary")
                  THEN [gen EXCEPT !.secondary_attempts = i]
                  ELSE [gen EXCEPT !.secondary_attempts = i, !.phase = "done",
                                   !.result = "error"]
    /\ UNCHANGED <<interviewVars, themeVars, fix, stage, conc>>

NextGen == primary_attempt \/ secondary_attempt

SpecGen == InitGen /\ [][NextGen]_vars

\* the provider's script: fails on the first k attempts, answers on the next
FailsThenOk(script, k) ==
    /\ \A i \in 1..k : Outcome(script, i) = "fail"
    /\ Outcome(script, k + 1) = "ok"
AlwaysFails(script, n) == \A i \in 1..n : Outcome(script, i) = "fail"

\* C9: a primary that fails twice and then answers: the call returns the
\* primary's answer after exactly 2 retries (3 attempts) and the fallback
\* provider is never invoked, at no point of the call.
C9_TwoRetriesNoFallback ==
    FailsThenOk(gen.primary, 2) =>
        /\ gen.secondary_attempts = 0
        /\ gen.phase # "secondary"
        /\ gen.phase = "done" => (gen.result = "primary" /\ gen.primary_attempts = 3)

C9_Witness ==
    /\ FailsThenOk(gen.primary, 2)
    /\ gen.phase = "done"
    /\ gen.result = "primary"
    /\ gen.primary_attempts - 1 = 2

\* C10: the fallback is invoked only after the primary has used its whole
\* retry budget (1 + 3 attempts, all failed); when the primary fails on every
\* attempt and the fallback answers, the call returns the fallback's answer;
\* a call never makes more than (1 + 3) + (1 + 2) provider attempts.
C10_FallbackAfterBudget ==
    /\ (gen.secondary_attempts > 0 \/ gen.phase = "secondary") =>
           /\ gen.primary_attempts = 1 + OPENAI_MAX_RETRIES
           /\ AlwaysFails(gen.primary, 1 + OPENAI_MAX_RETRIES)
    /\ (/\ gen.phase = "done"
        /\ AlwaysFails(gen.primary, 1 + OPENAI_MAX_RETRIES)
        /\ \E k \in 0..GEMINI_MAX_RETRIES : FailsThenOk(gen.secondary, k))
       => gen.result = "secondary"
    /\ gen.primary_attempts + gen.secondary_attempts
           <= (1 + OPENAI_MAX_RETRIES) + (1 + GEMINI_MAX_RETRIES)

C10_Witness ==
    /\ AlwaysFails(gen.primary, 1 + OPENAI_MAX_RETRIES)
    /\ FailsThenOk(gen.secondary, 0)
    /\ gen.phase = "done"
    /\ gen.result = "secondary"
    /\ gen.primary_attempts = 4
    /\ gen.secondary_attempts = 1

\* ========================================================================
\* One OutputFixingParser.parse call (self.fix_parser of a chain)
\* ========================================================================
\* the agents whose chain ends in OutputFixingParser(max_retries=3)
FixAgents == {"evaluation", "theme_refiner"}

\* a parser built without any repair
FixMaxRetries_NoRepair(agent) == 0

\* max_retries as the agent's __init__ passes it to OutputFixingParser.from_llm
FixMaxRetries(agent) == FIX_MAX_RETRIES

\* whether completion i parses: completion 1 is the provider's text,
\* completion k + 1 the text the k-th repair call returned
Parses(completions, i) == i <= Len(completions) /\ completions[i] = "ok"

Completions == [1..MaxScript -> {"ok", "bad"}]

InitFix ==
    /\ InitInterview
    /\ gen = IdleGen
    /\ InitTheme /\ stage = IdleStage /\ conc = IdleConc
    /\ \E a \in FixAgents, c \in Completions, r \in Scripts :
          fix = [agent |-> a, phase |-> "parse", completions |-> c, repairs |-> r,
                 retries |-> 0, repair_calls |-> 0, result |-> "none"]

\* self.parser.parse(completion) inside the retry loop: the structured result,
\* or OutputParserException once retries has reached max_retries
parse_completion ==
    /\ fix.phase = "parse"
    /\ fix' = IF Parses(fix.completions, fix.retries + 1)
              THEN [fix EXCEPT !.phase = "done", !.result = "parsed"]
              ELSE IF fix.retries = FixMaxRetries(fix.agent)
              THEN [fix EXCEPT !.phase = "done", !.result = "OutputParserException"]
              ELSE [fix EXCEPT !.retries = @ + 1, !.phase = "repair"]
    /\ UNCHANGED <<interviewVars, themeVars, gen, stage, conc>>

\* completion = retry_chain.invoke(...): one generation call of the fixer
\* model; its failure leaves the parser as the provider's exception
repair_call ==
    /\ fix.phase = "repair"
    /\ LET n == fix.repair_calls + 1
       IN  fix' = IF Outcome(fix.repairs, n) = "ok"
                  THEN [fix EXCEPT !.repair_calls = n, !.phase = "parse"]
                  ELSE [fix EXCEPT !.repair_calls = n, !.phase = "done",
                                   !.result = "provider_error"]
    /\ UNCHANGED <<interviewVars, themeVars, gen, stage, conc>>

NextFix == parse_completion \/ repair_call

SpecFix == InitFix /\ [][NextFix]_vars

\* C11: when the provider's text does not parse, the first repair call returns
\* and its text parses, the parse call returns the structured result after
\* exactly one repair generation call; no parse call ever issues more than 3
\* repair calls.
C11_OneRepairThenParsed ==
    /\ (/\ fix.phase = "done"
        /\ ~Parses(fix.completions, 1)
        /\ Outcome(fix.repairs, 1) = "ok"
        /\ Parses(fix.completions, 2))
       => (fix.result = "parsed" /\ fix.repair_calls = 1)
    /\ fix.repair_calls <= 3

C11_Witness ==
    /\ fix.phase = "done"
    /\ ~Parses(fix.completions, 1)
    /\ Parses(fix.completions, 2)
    /\ fix.result = "parsed"
    /\ fix.repair_calls = 1

\* ========================================================================
\* The theme workflow: stages of app/llm/workflow/graph.py
\* ========================================================================
\* str(e) of the exception a provider client raises once its attempts are
\* used up, and of the OutputParserException of a parser
PROVIDER_EXCEPTION_TEXT == "provider_error"
PARSER_EXCEPTION_TEXT == "parse_error"

\* str() of the dict company_analyzer wraps the provider's exception in
GEMINI_ERROR_REPR ==
    "{'status': 'Gemini Error', 'code': 'gemini_error', 'message': 'provider_error'}"
\* str() of the dict _generate_themes raises
THEME_GENERATION_ERROR_REPR ==
    "{'status': 'Theme Generation Error', 'code': 'theme_generation_error', 'message': 'Agent unavailable. Please try again shortly.'}"
AGENT_UNAVAILABLE == "Agent unavailable. Please try again shortly."
SESSION_NOT_FOUND_MESSAGE == "Survey session not found. Initialize first with /init endpoint."
ANALYSIS_REQUIRED == "Company analysis is required for theme generation"
THEMES_REQUIRED == "Current themes are required for refinement"
FEEDBACK_REQUIRED == "User feedback is required for refinement"
GENERATED_MESSAGE == "I've analyzed the company and created survey themes based on your goal."
ANALYSIS_TEXT == "company analysis"
EXPLANATION_TEXT == "explanation of the changes"

\* what survey_memory_store.get_init_data returns for an initialized survey
InitDataOf(s) == [title |-> "title", goal |-> "goal", company_url |-> "url"]

\* a row of chat_history
HistoryRow(role, content, themes) == [role |-> role, content |-> content, themes |-> themes]

\* the channels of the theme graph before any input was written
BlankThemeState ==
    [title |-> "", goal |-> "", company_url |-> "", company_analysis |-> "",
     themes |-> <<>>, user_feedback |-> "", chat_history |-> <<>>,
     explanation |-> "", node_status |-> ""]

\* graph_input of the first chat of a survey (themes: None, user_feedback: None)
FirstChatInput(init_data, msg) ==
    [title |-> init_data.title, goal |-> init_data.goal,
     company_url |-> init_data.company_url,
     themes |-> <<>>, user_feedback |-> "",
     chat_history |-> <<HistoryRow("user", msg, <<>>)>>]

\* graph_input of a later chat
RefineChatInput(state_values, msg) ==
    [title |-> state_values.title, goal |-> state_values.goal,
     company_url |-> state_values.company_url,
     company_analysis |-> state_values.company_analysis,
     themes |-> state_values.themes, user_feedback |-> msg,
     chat_history |-> Append(state_values.chat_history,
                             HistoryRow("user", msg, state_values.themes))]

\* what a theme stage did: calls counts the generation calls it issued
StageRaise(type, message, calls) ==
    [raised |-> TRUE, type |-> type, message |-> message, calls |-> calls,
     update |-> EmptyDict]
StageReturn(update, calls) ==
    [raised |-> FALSE, type |-> "", message |-> "", calls |-> calls, update |-> update]

starting_node(state) == StageReturn([node_status |-> "started"], 0)
workflow_routing_AlwaysGenerate(state) == "generate"
workflow_routing(state) == IF state.themes # <<>> THEN "refine" ELSE "generate"
theme_final_node(state) == StageReturn([node_status |-> "completed"], 0)

\* an is what self.llm.ainvoke returned: the analysis text (possibly empty),
\* or the failure of the Gemini client
company_analyzer_node(state, an) ==
    IF an.kind = "ok"
    THEN StageReturn([company_analysis |-> an.text,
                      node_status |-> "company_analysis_complete"], 1)
    ELSE StageRaise("Exception", GEMINI_ERROR_REPR, 1)

\* out is what the provider chain and the parser made of the generation call
theme_generator_node(state, out) ==
    IF state.company_analysis = ""
    THEN StageRaise("ValueError", ANALYSIS_REQUIRED, 0)
    ELSE IF out.kind # "ok"
    THEN StageRaise("Exception", THEME_GENERATION_ERROR_REPR, 1)
    ELSE StageReturn([themes |-> out.themes,
                      chat_history |-> Append(state.chat_history,
                          HistoryRow("assistant", "generated themes", out.themes)),
                      node_status |-> "theme_generation_complete"], 1)

\* a refiner that calls the chain before it looks at its inputs
theme_refiner_node_CallFirst(state, out) ==
    IF out.kind # "ok"
    THEN StageRaise("ThemeRefinementError", AGENT_UNAVAILABLE, 1 + out.repairs)
    ELSE IF state.themes = <<>>
    THEN StageRaise("ValueError", THEMES_REQUIRED, 1 + out.repairs)
    ELSE IF state.user_feedback = ""
    THEN StageRaise("ValueError", FEEDBACK_REQUIRED, 1 + out.repairs)
    ELSE StageReturn([themes |-> out.themes, explanation |-> EXPLANATION_TEXT,
                      node_status |-> "theme_refinement_complete"], 1 + out.repairs)

\* out.repairs is the number of repair calls the OutputFixingParser issued
theme_refiner_node(state, out) ==
    IF state.themes = <<>>
    THEN StageRaise("ValueError", THEMES_REQUIRED, 0)
    ELSE IF state.user_feedback = ""
    THEN StageRaise("ValueError", FEEDBACK_REQUIRED, 0)
    ELSE IF out.kind # "ok"
    THEN StageRaise("ThemeRefinementError", AGENT_UNAVAILABLE, 1 + out.repairs)
    ELSE StageReturn([themes |-> out.themes,
                      explanation |-> EXPLANATION_TEXT,
                      chat_history |-> Append(state.chat_history,
                          HistoryRow("assistant", EXPLANATION_TEXT, out.themes)),
                      node_status |-> "theme_refinement_complete"], 1 + out.repairs)

\* outcomes of the generation calls of the theme stages
AnalysisOutcomes ==
    {[kind |-> "ok", text |-> ANALYSIS_TEXT], [kind |-> "ok", text |-> ""],
     [kind |-> "provider_error", text |-> ""]}
GeneratedThemes == {<<"T0">>, <<"T0", "T1">>}
ChainOutcomes ==
    [kind : {"ok"}, themes : GeneratedThemes, repairs : {0, 1}]
    \cup [kind : {"provider_error"}, themes : {<<>>}, repairs : {0}]
    \cup [kind : {"parse_error"}, themes : {<<>>}, repairs : {FIX_MAX_RETRIES}]

\* ------------------------------------------------- one stage on one input
StageInputs ==
    {Merge(BlankThemeState, [themes |-> th, user_feedback |-> fb, company_analysis |-> ca,
                             chat_history |-> h]) :
        th \in GeneratedThemes \cup {<<>>}, fb \in UserTexts \cup {""},
        ca \in {ANALYSIS_TEXT, ""},
        h \in {<<>>, <<HistoryRow("user", "a", <<>>)>>}}

InitStage ==
    /\ InitInterview
    /\ gen = IdleGen /\ fix = IdleFix /\ conc = IdleConc
    /\ InitTheme
    /\ \E st \in StageInputs : stage = [phase |-> "input", state |-> st]

apply_theme_refiner ==
    /\ stage.phase = "input"
    /\ \E out \in ChainOutcomes :
          stage' = [phase |-> "done", node |-> "theme_refiner", state |-> stage.state,
                    result |-> theme_refiner_node(stage.state, out)]
    /\ UNCHANGED <<interviewVars, themeVars, gen, fix, conc>>

apply_theme_generator ==
    /\ stage.phase = "input"
    /\ \E out \in ChainOutcomes :
          stage' = [phase |-> "done", node |-> "theme_generator", state |-> stage.state,
                    result |-> theme_generator_node(stage.state, out)]
    /\ UNCHANGED <<interviewVars, themeVars, gen, fix, conc>>

NextStage == apply_theme_refiner \/ apply_theme_generator

SpecStage == InitStage /\ [][NextStage]_vars

\* the stage's required input is missing
MissingInput(node, state) ==
    \/ node = "theme_refiner" /\ (state.themes = <<>> \/ state.user_feedback = "")
    \/ node = "theme_generator" /\ state.company_analysis = ""

\* C12: the refinement stage on empty current topics or empty user feedback,
\* and the generation stage on an empty subject analysis, raise a validation
\* error (ValueError) and have issued no generation call.
C12_ValidationBeforeGeneration ==
    (stage.phase = "done" /\ MissingInput(stage.node, stage.state))
    => /\ stage.result.raised
       /\ stage.result.type = "ValueError"
       /\ stage.result.calls = 0

C12_Witness ==
    /\ stage.phase = "done"
    /\ stage.node = "theme_refiner"
    /\ stage.state.themes = <<>>
    /\ stage.state.user_feedback # ""
    /\ stage.result.raised
    /\ stage.result.message = THEMES_REQUIRED
    /\ stage.result.calls = 0

\* ========================================================================
\* The theme workflow: graph and endpoints of app/api/v1/endpoints/chat.py
\* ========================================================================
\* the path map of the conditional edge after "start"
AfterStartingEdges == [generate |-> "company_analyzer", refine |-> "theme_refiner"]

ThemeFailed(saved, path, r, calls) ==
    [raised |-> TRUE, type |-> r.type, message |-> r.message, saved |-> saved,
     path |-> path, calls |-> calls]
ThemeEnded(saved, path, calls) ==
    [raised |-> FALSE, type |-> "", message |-> "", saved |-> saved,
     path |-> path, calls |-> calls]

\* theme_generator -> final -> END and theme_refiner -> final -> END
RunThemeFinal(state, path, calls) ==
    ThemeEnded(Merge(state, theme_final_node(state).update), Append(path, "final"), calls)

\* graph.ainvoke(graph_input, config): the input is written over the saved
\* channels, the stages run from the entry point, and the checkpointer keeps
\* the values after the last stage that completed
theme_ainvoke(base, input, an, out) ==
    LET s0 == Merge(base, input)
        s1 == Merge(s0, starting_node(s0).update)
        p1 == <<"start">>
        next == AfterStartingEdges[workflow_routing(s1)]
    IN  IF next = "company_analyzer"
        THEN LET ra == company_analyzer_node(s1, an)
                 p2 == Append(p1, "company_analyzer")
             IN  IF ra.raised THEN ThemeFailed(s1, p2, ra, ra.calls)
                 ELSE LET s2 == Merge(s1, ra.update)
                          rg == theme_generator_node(s2, out)
                          p3 == Append(p2, "theme_generator")
                      IN  IF rg.raised THEN ThemeFailed(s2, p3, rg, ra.calls + rg.calls)
                          ELSE RunThemeFinal(Merge(s2, rg.update), p3, ra.calls + rg.calls)
        ELSE LET rr == theme_refiner_node(s1, out)
                 p2 == Append(p1, "theme_refiner")
             IN  IF rr.raised THEN ThemeFailed(s1, p2, rr, rr.calls)
                 ELSE RunThemeFinal(Merge(s1, rr.update), p2, rr.calls)

\* exceptions inside the handler body
NoException == [raised |-> FALSE, type |-> "", message |-> ""]
Exception(type, message) == [raised |-> TRUE, type |-> type, message |-> message]

\* the AgentException subclasses the chat handler lets through
GeminiError(message) == [status |-> 500, code |-> "gemini_error", message |-> message]
ThemeGenerationError(message) ==
    [status |-> 500, code |-> "theme_generation_error", message |-> message]
ThemeRefinementError(message) ==
    [status |-> 500, code |-> "theme_refinement_error", message |-> message]

\* the except clauses of chat: typed agent errors are re-raised as they are,
\* every other exception becomes ChatError(str(e))
ChatHandlerError(type, message) ==
    IF type = "SessionNotFoundError" THEN SessionNotFoundError(message)
    ELSE IF type = "GeminiError" THEN GeminiError(message)
    ELSE IF type = "ThemeGenerationError" THEN ThemeGenerationError(message)
    ELSE IF type = "ThemeRefinementError" THEN ThemeRefinementError(message)
    ELSE ChatError(message)

ChatResponse(survey_id, themes, message) ==
    [status |-> 200, code |-> "ok", survey_id |-> survey_id, themes |-> themes,
     message |-> message]

\* try: ... except Exception as e: logger.warning(...) around the save block
LogAndContinue(exc) == NoException

\* the save block of chat: dbFail names the database call that raises (0:
\* none, 1: the existence check, 2: the user row, 3: the assistant row, 4:
\* update_themes); failed says whether any database call raised
SaveChat(row, msg, response_message, themes, dbFail) ==
    LET dbError == Exception("DatabaseConnectionError", "DatabaseConnectionError")
        user == Append(row.messages, Row("user", msg))
        both == Append(user, Row("assistant", response_message))
    IN  IF dbFail = 1                       \* _survey_exists_in_db returns False
        THEN [row |-> row, exc |-> NoException, failed |-> TRUE]
        ELSE IF ~row.exists
        THEN [row |-> row, exc |-> NoException, failed |-> FALSE]
        ELSE IF dbFail = 2
        THEN [row |-> row, exc |-> dbError, failed |-> TRUE]
        ELSE IF dbFail = 3
        THEN [row |-> [row EXCEPT !.messages = user], exc |-> dbError, failed |-> TRUE]
        ELSE IF dbFail = 4
        THEN [row |-> [row EXCEPT !.messages = both], exc |-> dbError, failed |-> TRUE]
        ELSE [row |-> [row EXCEPT !.messages = both, !.themes = themes],
              exc |-> NoException, failed |-> FALSE]

\* how a failed stage failed, as the caller of the turn would classify it
FailureKind(run, an, out) ==
    IF run.type = "ValueError" THEN "validation"
    ELSE IF run.path[Len(run.path)] = "company_analyzer" THEN an.kind
    ELSE out.kind

\* one whole call of chat for survey s: the response, the checkpoint and the
\* survey row it leaves, and what the call did
ChatTurnOn(s, state_values, stored, has_init, row, msg, an, out, dbFail) ==
    LET has_themes == state_values # NoState /\ state_values.themes # <<>>
        seen == [NoThemeRun EXCEPT !.survey = s, !.had_themes = has_themes,
                                   !.had_init = has_init]
    IN  IF ~has_themes /\ ~has_init
        THEN [response |-> SessionNotFoundError(SESSION_NOT_FOUND_MESSAGE),
              checkpoint |-> stored, row |-> row,
              run |-> [seen EXCEPT !.failure = "session_not_found"]]
        ELSE LET input == IF has_themes THEN RefineChatInput(state_values, msg)
                          ELSE FirstChatInput(InitDataOf(s), msg)
                 base == IF stored = NoState THEN BlankThemeState ELSE stored
                 run == theme_ainvoke(base, input, an, out)
                 ran == [seen EXCEPT !.path = run.path, !.calls = run.calls]
             IN  IF run.raised
                 THEN [response |-> ChatHandlerError(run.type, run.message),
                       checkpoint |-> run.saved, row |-> row,
                       run |-> [ran EXCEPT !.failure = FailureKind(run, an, out),
                                           !.stage = run.path[Len(run.path)]]]
                 ELSE LET response_message == IF has_themes THEN run.saved.explanation
                                              ELSE GENERATED_MESSAGE
                          save == SaveChat(row, msg, response_message, run.saved.themes, dbFail)
                          exc == LogAndContinue(save.exc)
                      IN  [response |-> IF exc.raised
                                        THEN ChatHandlerError(exc.type, exc.message)
                                        ELSE ChatResponse(s, run.saved.themes, response_message),
                           checkpoint |-> run.saved, row |-> save.row,
                           run |-> [ran EXCEPT !.db = save.failed]]

\* the call when aget_state returned what the checkpointer holds
ChatTurn(s, state_values, has_init, row, msg, an, out, dbFail) ==
    ChatTurnOn(s, state_values, state_values, has_init, row, msg, an, out, dbFail)

\* config = {"configurable": {"thread_id": str(chat_input.survey_id)}} with one
\* thread_id for every survey
ChatConfig_Shared(survey_id) == 1

\* config = {"configurable": {"thread_id": str(chat_input.survey_id)}}: the
\* key under which the checkpointer keeps the survey's state
ChatConfig(survey_id) == survey_id

ThemeDbFailures == 0..4
ThemeTurnInputs == [an : AnalysisOutcomes, out : ChainOutcomes, dbFail : ThemeDbFailures]

\* POST /init: the init data is stored under the survey id the call returns
\* (the database id when the row was created, a fresh uuid4 otherwise)
initialize_survey(db) ==
    /\ \E s \in SessionIds :
          /\ ~initData[s]
          /\ \A u \in SessionIds : u < s => initData[u]
          /\ initData' = [initData EXCEPT ![s] = TRUE]
          /\ themeDb' = [themeDb EXCEPT ![s] = [NoSurveyRow EXCEPT !.exists = (db = "ok")]]
          /\ response' = [status |-> 200, code |-> "ok", survey_id |-> s]
    /\ themeRun' = NoThemeRun
    /\ lastRun' = NoRun
    /\ UNCHANGED <<dbThreads, dbMessages, checkpoint, turnCount, allAccept, cursorLog>>
    /\ UNCHANGED <<themeCheckpoint, gen, fix, stage, conc>>

\* POST /chat
chat(s, msg, an, out, dbFail) ==
    /\ turnCount < MaxTurns
    /\ turnCount' = turnCount + 1
    /\ LET key == ChatConfig(s)
           turn == ChatTurn(s, themeCheckpoint[key], initData[s], themeDb[s],
                            msg, an, out, dbFail)
       IN  /\ response' = turn.response
           /\ themeCheckpoint' = [themeCheckpoint EXCEPT ![key] = turn.checkpoint]
           /\ themeDb' = [themeDb EXCEPT ![s] = turn.row]
           /\ themeRun' = turn.run
    /\ lastRun' = NoRun
    /\ UNCHANGED <<dbThreads, dbMessages, checkpoint, allAccept, cursorLog>>
    /\ UNCHANGED <<initData, gen, fix, stage, conc>>

NextTheme ==
    \/ \E db \in {"ok", "fail"} : initialize_survey(db)
    \/ \E s \in SessionIds, msg \in UserTexts, in \in ThemeTurnInputs :
          chat(s, msg, in.an, in.out, in.dbFail)

SpecTheme == Init /\ [][NextTheme]_vars

\* Both routers of the application (main.py includes chat.router and
\* survey.router). The ids of threads and of surveys are fresh UUIDs, so the
\* two workflows never share a key of the checkpointer. Interview threads are
\* created for the one-topic survey, with the database up.
AppEvalOutcomes ==
    {DefaultEval,
     [kind |-> "ok", is_answer_complete |-> TRUE, needs_follow_up |-> FALSE,
      next_theme_index |-> 1]}
AppTurnInputs ==
    [dbFail : {0}, ev : AppEvalOutcomes, q : {DefaultQuestion}]
    \cup [dbFail : {1, 2, 4}, ev : {DefaultEval}, q : {DefaultQuestion}]
AppChainOutcomes ==
    {[kind |-> "ok", themes |-> <<"T0", "T1">>, repairs |-> 0],
     [kind |-> "provider_error", themes |-> <<>>, repairs |-> 0],
     [kind |-> "parse_error", themes |-> <<>>, repairs |-> FIX_MAX_RETRIES]}
\* the analyzer's outcomes with a generation that succeeds, the chain's
\* outcomes after an analysis that succeeded, and the database failures of a
\* turn in which both succeeded
AppAnalysisOk == [kind |-> "ok", text |-> ANALYSIS_TEXT]
AppChainOk == [kind |-> "ok", themes |-> <<"T0", "T1">>, repairs |-> 0]
AppThemeTurnInputs ==
    [an : AnalysisOutcomes, out : {AppChainOk}, dbFail : {0}]
    \cup [an : {AppAnalysisOk}, out : AppChainOutcomes, dbFail : {0}]
    \cup [an : {AppAnalysisOk}, out : {AppChainOk}, dbFail : {1, 3}]

NextApp ==
    \/ \E s \in {1} : init_survey(s, 0)
    \/ \E t \in ThreadIds, in \in AppTurnInputs :
          survey_chat(t, "a", in.dbFail, in.ev, in.q)
    \/ \E db \in {"ok", "fail"} : initialize_survey(db)
    \/ \E s \in SessionIds, in \in AppThemeTurnInputs :
          chat(s, "a", in.an, in.out, in.dbFail)

SpecApp == Init /\ [][NextApp]_vars

\* ========================================================================
\* Properties of the two workflows together
\* ========================================================================
HasTopics(state_values) == state_values # NoState /\ state_values.themes # <<>>

\* the call just made was a theme chat turn for survey s
ThemeTurnFor(s) == themeRun'.survey = s /\ s # NoSession
\* the call just made was an interview turn for thread t
InterviewTurnFor(t) == lastRun'.target = t /\ t # NoThread

\* C13: a theme chat turn on a survey id with no topics in its checkpoint and
\* no init data, and an interview turn whose thread or survey is not found,
\* answer 404 session_not_found, run no stage, issue no generation call and
\* leave the checkpoint store as it was.
C13_UnknownSessionNotFound ==
    [][/\ \A s \in SessionIds :
             (ThemeTurnFor(s) /\ ~HasTopics(themeCheckpoint[ChatConfig(s)]) /\ ~initData[s])
             => /\ response'.status = 404
                /\ response'.code = "session_not_found"
                /\ themeRun'.path = <<>>
                /\ themeRun'.calls = 0
                /\ themeCheckpoint' = themeCheckpoint
                /\ checkpoint' = checkpoint
        /\ \A t \in ThreadIds :
             (InterviewTurnFor(t) /\ lastRun'.lookup \in {"no_thread", "no_survey"})
             => /\ response'.status = 404
                /\ response'.code = "session_not_found"
                /\ lastRun'.path = <<>>
                /\ gen' = gen
                /\ themeCheckpoint' = themeCheckpoint
                /\ checkpoint' = checkpoint]_vars

\* a theme chat turn on a survey that was never initialized was answered, after
\* another survey had been initialized and an interview thread created
C13_Witness ==
    /\ themeRun.survey = 2
    /\ ~themeRun.had_themes /\ ~themeRun.had_init
    /\ response.status = 404
    /\ themeRun.calls = 0
    /\ initData[1]
    /\ dbThreads[1] # NoThread

\* C14: a validation error raised by a stage is reported to the caller with a
\* 4xx status, never with a 5xx one.
C14_ValidationIsClientError ==
    themeRun.failure = "validation" => response.status \in 400..499

\* the two ways a generation call can fail for good
ProviderAndFormat == {"provider_error", "parse_error"}

\* C15: when the same stage fails in two successive turns, once because every
\* provider failed and once because the output never validated, the two
\* responses carry different error codes.
C15_FailureKindsDistinct ==
    [][/\ (/\ themeRun.stage = themeRun'.stage
           /\ {themeRun.failure, themeRun'.failure} = ProviderAndFormat)
          => response.code # response'.code
       /\ (/\ lastRun.path = lastRun'.path
           /\ {lastRun.failure, lastRun'.failure} = ProviderAndFormat)
          => response.code # response'.code]_vars

\* the response messages that carry str(e) of the provider's exception: the
\* text itself and the dict company_analyzer embeds it in
EmbedsProviderText == {PROVIDER_EXCEPTION_TEXT, GEMINI_ERROR_REPR}

\* C16: the response to a turn that failed because the providers failed has a
\* message that does not contain the raw text of the provider's exception.
C16_ProviderTextNotLeaked ==
    (themeRun.failure = "provider_error" \/ lastRun.failure = "provider_error")
    => response.message \notin EmbedsProviderText

\* C17: a turn in which a database call raised while no stage failed is
\* still answered with the generated response, in the theme chat and in the
\* interview chat.
C17_DbFailureNeverBlocks ==
    /\ (themeRun.db /\ themeRun.failure = "none") => response.status = 200
    /\ (lastRun.db \in {1, 3, 4, 5} /\ lastRun.failure = "none") => response.status = 200

\* one whole call of survey_chat for thread t, as a function of what the call
\* reads: the thread's survey id, its stored messages and its checkpoint
SurveyTurn(t, survey_id, messages, state_values, msg, dbFail, ev, q) ==
    LET saved_user == Append(messages, Row("user", msg))
        same == [checkpoint |-> state_values, messages |-> messages, path |-> <<>>]
        stored == [checkpoint |-> state_values, messages |-> saved_user, path |-> <<>>]
    IN  IF dbFail = 1
        THEN same @@ [response |-> ChatError("DatabaseConnectionError")]
        ELSE IF survey_id = NoThread
        THEN same @@ [response |-> SessionNotFoundError("Survey thread not found")]
        ELSE IF dbFail = 2
        THEN same @@ [response |-> SessionNotFoundError("Survey not found")]
        ELSE IF dbFail = 3
        THEN same @@ [response |-> ChatError("DatabaseConnectionError")]
        ELSE IF dbFail = 4
        THEN stored @@ [response |-> ChatError("DatabaseConnectionError")]
        ELSE LET run == ainvoke(GraphInput(t, survey_id, msg, saved_user, state_values), ev, q)
                 result == run.saved
                 kept == [checkpoint |-> run.saved, messages |-> saved_user, path |-> run.path]
             IN  IF run.raised
                 THEN kept @@ [response |-> ChatError(run.error)]
                 ELSE IF ~(result.survey_complete \/ result.next_theme_index < 0)
                         /\ ~PyIndexOK(result.next_theme_index, ThemeCount(result.survey_id))
                 THEN kept @@ [response |-> ChatError("IndexError")]
                 ELSE IF dbFail = 5
                 THEN kept @@ [response |-> ChatError("DatabaseConnectionError")]
                 ELSE [checkpoint |-> run.saved,
                       messages |-> Append(saved_user, Row("assistant", result.agent_response)),
                       path |-> run.path,
                       response |-> SurveyChatResponse(result)]

\* a theme chat turn for s leaves every other survey, and the interview, alone
ThemeTurnFrame(s) ==
    /\ \A u \in SessionIds \ {s} :
          themeCheckpoint'[u] = themeCheckpoint[u] /\ themeDb'[u] = themeDb[u]
    /\ initData' = initData
    /\ checkpoint' = checkpoint /\ dbMessages' = dbMessages /\ dbThreads' = dbThreads

\* an interview turn for t leaves every other thread, and the theme chat, alone
InterviewTurnFrame(t) ==
    /\ \A u \in ThreadIds \ {t} :
          checkpoint'[u] = checkpoint[u] /\ dbMessages'[u] = dbMessages[u]
    /\ dbThreads' = dbThreads
    /\ initData' = initData /\ themeCheckpoint' = themeCheckpoint /\ themeDb' = themeDb

\* the outcome of a theme chat turn for s is a function of s's own state
ThemeTurnLocal(s) ==
    \E in \in AppThemeTurnInputs :
        LET turn == ChatTurn(s, themeCheckpoint[s], initData[s], themeDb[s],
                             "a", in.an, in.out, in.dbFail)
        IN  /\ response' = turn.response
            /\ themeCheckpoint'[s] = turn.checkpoint
            /\ themeDb'[s] = turn.row

\* the outcome of an interview turn for t is a function of t's own state
InterviewTurnLocal(t) ==
    \E in \in AppTurnInputs :
        LET turn == SurveyTurn(t, dbThreads[t], dbMessages[t], checkpoint[t],
                               "a", in.dbFail, in.ev, in.q)
        IN  /\ response' = turn.response
            /\ checkpoint'[t] = turn.checkpoint
            /\ dbMessages'[t] = turn.messages

Requests == {1, 2}

IdleRequest ==
    [pc |-> "idle", thread |-> NoThread, msg |-> "", ev |-> DefaultEval,
     survey |-> NoThread, history |-> <<>>, state_values |-> NoState,
     run |-> Ended(NoState, <<>>), response |-> NoResponse]

\* stores: the requests in the order they stored their user row; writes: the
\* requests in the order their graph run wrote the checkpoint
InitConc ==
    /\ InitInterview /\ InitTheme
    /\ gen = IdleGen /\ fix = IdleFix /\ stage = IdleStage
    /\ conc = [phase |-> "serving", req |-> [r \in Requests |-> IdleRequest],
               stores |-> <<>>, writes |-> <<>>]

ConcFrame == UNCHANGED <<dbThreads, lastRun, turnCount, allAccept, cursorLog,
                         gen, fix, stage, themeVars>>

\* a checkpointer that keeps the first state written under a key
CheckpointPut_FirstWins(store, key, saved) ==
    IF store[key] = NoState THEN [store EXCEPT ![key] = saved] ELSE store

\* MemorySaver keeps, under each thread_id, the state written last
CheckpointPut(store, key, saved) == [store EXCEPT ![key] = saved]

\* POST /survey/chat arrives
conc_receive(r, t, msg, ev) ==
    /\ conc.req[r].pc = "idle"
    /\ conc' = [conc EXCEPT !.req[r] = [IdleRequest EXCEPT !.pc = "lookup", !.thread = t,
                                                           !.msg = msg, !.ev = ev]]
    /\ UNCHANGED <<dbMessages, checkpoint, response>>
    /\ ConcFrame

\* await thread_crud.get_by_id and await _get_survey_context
conc_lookup(r) ==
    LET req == conc.req[r]
    IN  /\ req.pc = "lookup"
        /\ IF dbThreads[req.thread] = NoThread
           THEN /\ conc' = [conc EXCEPT !.req[r].pc = "done",
                                 !.req[r].response = SessionNotFoundError("Survey thread not found")]
                /\ response' = SessionNotFoundError("Survey thread not found")
           ELSE /\ conc' = [conc EXCEPT !.req[r].pc = "save_user",
                                 !.req[r].survey = dbThreads[req.thread]]
                /\ UNCHANGED response
        /\ UNCHANGED <<dbMessages, checkpoint>>
        /\ ConcFrame

\* await message_crud.create(role="user", ...)
conc_save_user(r) ==
    LET req == conc.req[r]
    IN  /\ req.pc = "save_user"
        /\ dbMessages' = [dbMessages EXCEPT ![req.thread] = Append(@, Row("user", req.msg))]
        /\ conc' = [conc EXCEPT !.req[r].pc = "read_history", !.stores = Append(@, r)]
        /\ UNCHANGED <<checkpoint, response>>
        /\ ConcFrame

\* await message_crud.get_by_thread_id
conc_read_history(r) ==
    LET req == conc.req[r]
    IN  /\ req.pc = "read_history"
        /\ conc' = [conc EXCEPT !.req[r].pc = "get_state",
                                !.req[r].history = dbMessages[req.thread]]
        /\ UNCHANGED <<dbMessages, checkpoint, response>>
        /\ ConcFrame

\* await graph.aget_state(config)
conc_get_state(r) ==
    LET req == conc.req[r]
    IN  /\ req.pc = "get_state"
        /\ conc' = [conc EXCEPT !.req[r].pc = "invoke",
                                !.req[r].state_values = checkpoint[req.thread]]
        /\ UNCHANGED <<dbMessages, checkpoint, response>>
        /\ ConcFrame

\* await graph.ainvoke(graph_input, config=config)
conc_invoke(r) ==
    LET req == conc.req[r]
        run == ainvoke(GraphInput(req.thread, req.survey, req.msg, req.history,
                                  req.state_values), req.ev, DefaultQuestion)
    IN  /\ req.pc = "invoke"
        /\ checkpoint' = CheckpointPut(checkpoint, req.thread, run.saved)
        /\ conc' = [conc EXCEPT !.req[r].pc = "finish", !.req[r].run = run,
                                !.writes = Append(@, r)]
        /\ UNCHANGED <<dbMessages, response>>
        /\ ConcFrame

\* the rest of the handler: the response fields, the assistant row, the
\* except clauses
conc_finish(r) ==
    LET req == conc.req[r]
        result == req.run.saved
        answer ==
            IF req.run.raised THEN ChatError(req.run.error)
            ELSE IF ~(result.survey_complete \/ result.next_theme_index < 0)
                    /\ ~PyIndexOK(result.next_theme_index, ThemeCount(result.survey_id))
            THEN ChatError("IndexError")
            ELSE SurveyChatResponse(result)
    IN  /\ req.pc = "finish"
        /\ response' = answer
        /\ conc' = [conc EXCEPT !.req[r].pc = "done", !.req[r].response = answer]
        /\ dbMessages' = IF answer.status = 200
                         THEN [dbMessages EXCEPT ![req.thread] =
                                  Append(@, Row("assistant", result.agent_response))]
                         ELSE dbMessages
        /\ UNCHANGED checkpoint
        /\ ConcFrame

\* POST /survey/init while requests are in flight
conc_init_survey ==
    /\ init_survey(1, 0)

NextConc ==
    \/ conc_init_survey
    \/ \E r \in Requests, t \in ThreadIds, msg \in UserTexts, ev \in AppEvalOutcomes :
          conc_receive(r, t, msg, ev)
    \/ \E r \in Requests : conc_lookup(r)
    \/ \E r \in Requests : conc_save_user(r)
    \/ \E r \in Requests : conc_read_history(r)
    \/ \E r \in Requests : conc_get_state(r)
    \/ \E r \in Requests : conc_invoke(r)
    \/ \E r \in Requests : conc_finish(r)

SpecConc == InitConc /\ [][NextConc]_vars

\* both requests were turns on thread t and both have been answered
BothTurnsDone(t) ==
    \A r \in Requests :
        /\ conc.req[r].pc = "done"
        /\ conc.req[r].thread = t
        /\ conc.req[r].survey # NoThread

\* what thread t holds at the end
FinalOf(t) == [checkpoint |-> checkpoint[t], messages |-> dbMessages[t]]

\* what thread t holds after the turn of request a and then the turn of
\* request b, run one after the other on the freshly created thread
SequentialTurns(a, b, t) ==
    LET ra == conc.req[a]
        rb == conc.req[b]
        t1 == SurveyTurn(t, dbThreads[t], <<>>, NoState, ra.msg, 0, ra.ev, DefaultQuestion)
        t2 == SurveyTurn(t, dbThreads[t], t1.messages, t1.checkpoint, rb.msg, 0, rb.ev,
                         DefaultQuestion)
    IN  [checkpoint |-> t2.checkpoint, messages |-> t2.messages]

IsUserRow(row) == row.role = "user"

\* C19 as stated: whatever the interleaving of two interview turns on one
\* thread_id, the final checkpoint and the stored messages are those of the
\* two turns run one after the other in some order.
C19_SerialEquivalent ==
    \A t \in ThreadIds :
        BothTurnsDone(t)
        => FinalOf(t) \in {SequentialTurns(1, 2, t), SequentialTurns(2, 1, t)}

\* C19 amended: the user message of each turn is stored exactly once, in the
\* order the turns stored them; the final checkpoint is the state written by
\* the graph run that wrote last; and when the turn that stored its message
\* last is also the turn that wrote the checkpoint last, the final checkpoint
\* and messages are those of the two turns run one after the other.
C19_LastWriteWins ==
    \A t \in ThreadIds :
        BothTurnsDone(t)
        => /\ SelectSeq(dbMessages[t], IsUserRow)
                = <<Row("user", conc.req[conc.stores[1]].msg),
                    Row("user", conc.req[conc.stores[2]].msg)>>
           /\ checkpoint[t] = conc.req[conc.writes[2]].run.saved
           /\ checkpoint[t].user_message = conc.req[conc.writes[2]].msg
           /\ conc.stores[2] = conc.writes[2]
              => FinalOf(t) = SequentialTurns(conc.stores[1], conc.stores[2], t)

\* two overlapping turns on thread 1: request 1 stored its message first and
\* wrote the checkpoint last
C19_Witness ==
    /\ BothTurnsDone(1)
    /\ conc.stores = <<1, 2>>
    /\ conc.writes = <<2, 1>>
    /\ conc.req[1].msg # conc.req[2].msg

\* ========================================================================
\* Turns whose checkpoint read fails
\* ========================================================================
\* try: current_state = await graph.aget_state(config) ...
\* except Exception: logger.warning(...); state_values = {}
aget_state(store, key, readFail) == IF readFail THEN NoState ELSE store[key]

\* POST /chat in which graph.aget_state raises
chat_unreadable(s, msg, an, out, dbFail) ==
    /\ turnCount < MaxTurns
    /\ turnCount' = turnCount + 1
    /\ LET key == ChatConfig(s)
           turn == ChatTurnOn(s, aget_state(themeCheckpoint, key, TRUE), themeCheckpoint[key],
                              initData[s], themeDb[s], msg, an, out, dbFail)
       IN  /\ response' = turn.response
           /\ themeCheckpoint' = [themeCheckpoint EXCEPT ![key] = turn.checkpoint]
           /\ themeDb' = [themeDb EXCEPT ![s] = turn.row]
           /\ themeRun' = [turn.run EXCEPT !.unread = TRUE]
    /\ lastRun' = NoRun
    /\ UNCHANGED <<dbThreads, dbMessages, checkpoint, allAccept, cursorLog>>
    /\ UNCHANGED <<initData, gen, fix, stage, conc>>

\* POST /survey/chat, on a thread that is found, in which graph.aget_state
\* raises
survey_chat_unreadable(t, msg, ev, q) ==
    /\ turnCount < MaxTurns
    /\ dbThreads[t] # NoThread
    /\ turnCount' = turnCount + 1
    /\ LET turn == SurveyTurn(t, dbThreads[t], dbMessages[t],
                              aget_state(checkpoint, t, TRUE), msg, 0, ev, q)
       IN  /\ response' = turn.response
           /\ checkpoint' = [checkpoint EXCEPT ![t] = turn.checkpoint]
           /\ dbMessages' = [dbMessages EXCEPT ![t] = turn.messages]
           /\ lastRun' = [EarlyExit(t, "found", 0) EXCEPT !.unread = TRUE, !.path = turn.path]
           /\ cursorLog' = [cursorLog EXCEPT ![t] = Append(@, turn.checkpoint.current_theme_index)]
    /\ allAccept' = [allAccept EXCEPT ![t] = FALSE]
    /\ themeRun' = NoThemeRun
    /\ UNCHANGED <<dbThreads, gen>>
    /\ UNCHANGED <<initData, themeCheckpoint, themeDb, fix, stage, conc>>

NextRead ==
    \/ NextApp
    \/ \E s \in SessionIds, in \in AppThemeTurnInputs :
          chat_unreadable(s, "a", in.an, in.out, in.dbFail)
    \/ \E t \in ThreadIds, ev \in AppEvalOutcomes :
          survey_chat_unreadable(t, "a", ev, DefaultQuestion)

SpecRead == Init /\ [][NextRead]_vars

\* C21: a turn for an identity that has a stored state and whose checkpoint
\* read failed is answered with a server error, runs no stage and leaves the
\* stored state as it was: it is never executed on default state values.
C21_UnreadableStateIsFatal ==
    [][/\ \A s \in SessionIds :
             (ThemeTurnFor(s) /\ themeRun'.unread /\ themeCheckpoint[s] # NoState)
             => /\ response'.status >= 500
                /\ themeRun'.path = <<>>
                /\ themeCheckpoint'[s] = themeCheckpoint[s]
       /\ \A t \in ThreadIds :
             (InterviewTurnFor(t) /\ lastRun'.unread /\ checkpoint[t] # NoState)
             => /\ response'.status >= 500
                /\ lastRun'.path = <<>>
                /\ checkpoint'[t] = checkpoint[t]]_vars

\* ========================================================================
\* Turns in which a stage raises
\* ========================================================================
IsAssistantRow(row) == row.role = "assistant"

\* the theme state a run for survey s starts from
PreTheme(s) == IF themeCheckpoint[s] = NoState THEN BlankThemeState ELSE themeCheckpoint[s]

\* the graph run of the interview turn just made raised
InterviewStageRaised(t) == InterviewTurnFor(t) /\ lastRun'.failure # "none"
\* a stage of the theme chat turn just made raised
ThemeStageRaised(s) ==
    ThemeTurnFor(s) /\ themeRun'.failure \in {"validation", "provider_error", "parse_error"}

\* C22: when a stage of a run raises, the caller receives an error, no agent
\* message is recorded for the turn, and the state saved for the identity
\* carries nothing the failed stage would have written.
C22_StageFailureFailsTurn ==
    [][/\ \A t \in ThreadIds :
             InterviewStageRaised(t)
             => /\ response'.status >= 400
                /\ SelectSeq(dbMessages'[t], IsAssistantRow)
                      = SelectSeq(dbMessages[t], IsAssistantRow)
                /\ Progress(checkpoint'[t]) = Progress(checkpoint[t])
                /\ ~checkpoint'[t].is_answer_complete
                /\ ~checkpoint'[t].needs_follow_up
                /\ checkpoint'[t].next_theme_index = None
                /\ checkpoint'[t].agent_response = ""
       /\ \A s \in SessionIds :
             ThemeStageRaised(s)
             => /\ response'.status >= 400
                /\ themeDb'[s] = themeDb[s]
                /\ themeCheckpoint'[s].themes = PreTheme(s).themes
                /\ themeCheckpoint'[s].explanation = PreTheme(s).explanation
                /\ themeCheckpoint'[s].chat_history[Len(themeCheckpoint'[s].chat_history)].role
                      = "user"
                /\ themeRun'.stage = "company_analyzer"
                   => themeCheckpoint'[s].company_analysis = PreTheme(s).company_analysis]_vars

\* the refinement stage of a survey that has topics failed for good
C22_Witness ==
    /\ themeRun.survey # NoSession
    /\ themeRun.stage = "theme_refiner"
    /\ themeRun.failure = "parse_error"
    /\ response.status = 500
    /\ HasTopics(themeCheckpoint[themeRun.survey])

\* ========================================================================
\* Steps of the interview after an evaluation
\* ========================================================================
\* the last call was a turn on thread t whose evaluation accepted the answer
\* (complete, no follow-up) to topic i, an index of the survey's topics, with
\* every model and database call of the turn succeeding
AcceptedTopic(t, i) ==
    /\ lastRun.thread = t /\ t # NoThread
    /\ lastRun.clean /\ lastRun.accepted
    /\ ~lastRun.pre.survey_complete /\ ~lastRun.pre.all_themes_complete
    /\ lastRun.pre.current_theme_index = i
    /\ i \in 0..(ThemeCount(dbThreads[t]) - 1)

\* C23: after a turn whose evaluation accepted the answer to topic i, the
\* question stage ran and the saved cursor is i+1 when i+1 is an index of a
\* topic; otherwise all_themes_complete is saved TRUE with the cursor at -2.
C23_AcceptAdvancesCursor ==
    \A t \in ThreadIds : \A i \in 0..(MaxThemes - 1) :
        AcceptedTopic(t, i)
        => /\ lastRun.path = <<"start", "evaluation", "conversation">>
           /\ IF i + 1 < ThemeCount(dbThreads[t])
              THEN /\ checkpoint[t].current_theme_index = i + 1
                   /\ ~checkpoint[t].all_themes_complete
              ELSE /\ checkpoint[t].current_theme_index = FEEDBACK_PHASE
                   /\ checkpoint[t].all_themes_complete

\* C24: the turn whose evaluation accepted the answer to the last topic went
\* from the evaluation to the question stage and returned the fixed
\* closing-feedback prompt.
C24_LastTopicAsksFeedback ==
    \A t \in ThreadIds :
        AcceptedTopic(t, ThemeCount(dbThreads[t]) - 1)
        => /\ lastRun.path = <<"start", "evaluation", "conversation">>
           /\ response.status = 200
           /\ response.message = FEEDBACK_PROMPT

\* the last call was a turn on thread t that found the conversation in the
\* closing-feedback phase, with every model and database call succeeding
FeedbackTurn(t) ==
    /\ lastRun.thread = t /\ t # NoThread
    /\ lastRun.clean
    /\ lastRun.pre.all_themes_complete /\ ~lastRun.pre.survey_complete
    /\ lastRun.pre.current_theme_index = FEEDBACK_PHASE

FollowUpTurn(t) ==
    /\ lastRun.thread = t /\ t # NoThread
    /\ lastRun.clean /\ ~lastRun.accepted
    /\ ~lastRun.pre.survey_complete /\ ~lastRun.pre.all_themes_complete
    /\ lastRun.pre.current_theme_index \in 0..(ThemeCount(dbThreads[t]) - 1)

\* C26: a turn whose evaluation asked for a follow-up went on to the question
\* stage on the same topic: the saved cursor and next_theme_index are the
\* cursor before the run, the topic is not marked complete and neither
\* completion flag is raised.
C26_FollowUpStaysOnTopic ==
    \A t \in ThreadIds :
        FollowUpTurn(t)
        => LET i == lastRun.pre.current_theme_index
               name == ThemeNames[i + 1]
               saved == checkpoint[t]
           IN  /\ lastRun.path = <<"start", "evaluation", "conversation">>
               /\ saved.current_theme_index = i
               /\ saved.next_theme_index = i
               /\ name \in DOMAIN saved.theme_responses
                     => ~saved.theme_responses[name].complete
               /\ ~saved.all_themes_complete
               /\ ~saved.survey_complete

\* ------------------------------------------------ the question stage alone
\* conversation_node applied to the states ConversationalSurveyState allows:
\* any survey, every value the stages give a topic index (the sentinels -2
\* and -1, the indices of the topics, and one past the last topic), and both
\* completion flags.
QuestionCursors(s) == FEEDBACK_PHASE..ThemeCount(s)

QuestionInputs ==
    {Merge(GraphInput(1, s, "a", StoredHistory, NoState),
           [current_theme_index |-> c, all_themes_complete |-> a, survey_complete |-> sc]) :
        s \in SurveyIds, c \in FEEDBACK_PHASE..MaxThemes, a \in BOOLEAN,
        sc \in BOOLEAN}

InitQuestion ==
    /\ InitInterview
    /\ gen = IdleGen /\ fix = IdleFix /\ conc = IdleConc
    /\ InitTheme
    /\ \E st \in QuestionInputs :
          /\ st.current_theme_index \in QuestionCursors(st.survey_id)
          /\ stage = [phase |-> "input", state |-> st]

apply_conversation ==
    /\ stage.phase = "input"
    /\ \E q \in QuestionOutcomes :
          stage' = [phase |-> "done", node |-> "conversation", state |-> stage.state,
                    q |-> q, result |-> conversation_node(stage.state, q)]
    /\ UNCHANGED <<interviewVars, themeVars, gen, fix, conc>>

NextQuestion == apply_conversation

SpecQuestion == InitQuestion /\ [][NextQuestion]_vars

\* what the stage returns when it answers with a fixed text
FixedReply(text) == Return([agent_response |-> text, node_status |-> "conversation_complete"])

\* what the stage returns when it made the generation call with outcome q
GeneratedReply(q) == IF q.kind = "ok" THEN FixedReply(q.text) ELSE Raise(q.kind)

EntryPoint == "start"

\* add_edge(stage, END)
Edges_Loop == [conversation |-> "evaluation", final |-> "END"]
Edges == [conversation |-> "END", final |-> "END"]

\* the stage called on the state, with the outcomes its model call would have
NodeResult(node, state, ev, q) ==
    IF node = "start" THEN start_node(state)
    ELSE IF node = "evaluation" THEN evaluation_node(state, ev)
    ELSE IF node = "conversation" THEN conversation_node(state, q)
    ELSE final_node(state)

\* where the graph goes after a stage returned: the target of its edge, END,
\* or KeyError when a router's label is no key of its path map
NextNode(node, after) ==
    IF node = "start"
    THEN LET label == routing_after_start(after)
         IN  IF label \in DOMAIN AfterStartEdges THEN AfterStartEdges[label] ELSE "KeyError"
    ELSE IF node = "evaluation"
    THEN LET label == routing_after_evaluation(after).label
         IN  IF label \in DOMAIN AfterEvaluationEdges THEN AfterEvaluationEdges[label]
             ELSE "KeyError"
    ELSE Edges[node]

\* the states a run may be started on: either history, any stored progress
GraphInputs ==
    {Merge(GraphInput(1, s, "a", h, NoState), pr) :
        s \in SurveyIds, h \in {<<>>, StoredHistory},
        pr \in UNION {StoredProgress(x) : x \in SurveyIds}}

InitGraph ==
    /\ InitInterview
    /\ gen = IdleGen /\ fix = IdleFix /\ conc = IdleConc
    /\ InitTheme
    /\ \E st \in GraphInputs, ev \in EvalOutcomes, q \in QuestionOutcomes :
          /\ \E pr \in StoredProgress(st.survey_id) :
                pr.current_theme_index = st.current_theme_index
          /\ stage = [phase |-> "graph", status |-> "running", node |-> EntryPoint,
                      state |-> st, input |-> st, path |-> <<>>, ev |-> ev, q |-> q,
                      error |-> "", written |-> <<>>]

graph_step ==
    /\ stage.phase = "graph" /\ stage.status = "running"
    /\ LET r == NodeResult(stage.node, stage.state, stage.ev, stage.q)
           p == Append(stage.path, stage.node)
           after == Merge(stage.state, r.update)
           next == NextNode(stage.node, after)
           w == Append(stage.written, [node |-> stage.node, fields |-> DOMAIN r.update])
       IN  stage' =
             IF r.raised
             THEN [stage EXCEPT !.status = "failed", !.path = p, !.error = r.error]
             ELSE IF next = "KeyError"
             THEN [stage EXCEPT !.status = "failed", !.path = p, !.error = "KeyError",
                                !.written = w]
             ELSE IF next = "END"
             THEN [stage EXCEPT !.status = "ended", !.path = p, !.state = after,
                                !.written = w]
             ELSE [stage EXCEPT !.node = next, !.path = p, !.state = after,
                                !.written = w]
    /\ UNCHANGED <<interviewVars, themeVars, gen, fix, conc>>

NextGraph == graph_step

SpecGraph == InitGraph /\ [][NextGraph]_vars

\* the stage names of path p, each position where name occurs
Visits(p, name) == {i \in 1..Len(p) : p[i] = name}

\* C28: a run of the interview graph enters at most three stages and no
\* stage twice; the question stage and the evaluation stage each at most
\* once; once the question stage has returned the run is suspended (ended),
\* the question stage being the last stage entered.
C28_RunIsBounded ==
    stage.phase = "graph"
    => LET p == stage.path
       IN  /\ Len(p) <= 3
           /\ \A name \in {"start", "evaluation", "conversation", "final"} :
                 Cardinality(Visits(p, name)) <= 1
           /\ \A i \in Visits(p, "conversation") :
                 /\ i = Len(p)
                 /\ stage.status \in {"ended", "failed"}
                 /\ stage.status = "ended" <=> stage.error = ""

\* a run that asked a question and was suspended right after it
C28_Witness ==
    /\ stage.phase = "graph" /\ stage.status = "ended"
    /\ stage.path = <<"start", "conversation">>
    /\ stage.state.agent_response = GeneratedQuestion

\* the stage-by-stage run and graph.ainvoke agree on the stages entered
StepsAgreeWithInvoke ==
    (stage.phase = "graph" /\ stage.status # "running")
    => LET run == ainvoke(stage.input, stage.ev, stage.q)
       IN  /\ run.raised <=> stage.status = "failed"
           /\ run.path = stage.path
           /\ run.error = stage.error
           /\ run.saved = stage.state

\* ----------------------------------------------- routing of the theme graph
\* the stages of path p as a set
StagesOf(p) == {p[i] : i \in 1..Len(p)}

\* C29: a run of the theme graph on a state with topics goes from the entry
\* stage to the refinement stage, and on a state without topics to the
\* analysis stage and from there to the generation stage; refinement and
\* generation are never both entered; and when the stages entered all
\* returned, the run goes on to the terminal stage and ends there.
C29_ThemeRouting ==
    themeRun.path # <<>>
    => LET p == themeRun.path
           returned == themeRun.stage = "none"
       IN  /\ p[1] = "start" /\ Len(p) >= 2
           /\ themeRun.had_themes <=> p[2] = "theme_refiner"
           /\ ~themeRun.had_themes <=> p[2] = "company_analyzer"
           /\ (p[2] = "company_analyzer" /\ Len(p) >= 3) => p[3] = "theme_generator"
           /\ ~({"theme_refiner", "theme_generator"} \subseteq StagesOf(p))
           /\ ~themeRun.had_themes => "theme_refiner" \notin StagesOf(p)
           /\ themeRun.had_themes => StagesOf(p) \cap {"company_analyzer", "theme_generator"} = {}
           /\ returned => p \in {<<"start", "theme_refiner", "final">>,
                                 <<"start", "company_analyzer", "theme_generator", "final">>}
           /\ ~returned => p[Len(p)] = themeRun.stage /\ "final" \notin StagesOf(p)

\* a refinement run on stored topics that ended in the terminal stage
C29_Witness ==
    /\ themeRun.had_themes
    /\ themeRun.path = <<"start", "theme_refiner", "final">>
    /\ response.status = 200

\* the message of the last turn on thread t: survey_chat stores it as the
\* user row before anything else, and reads it back as the end of the history
LastUserMessage(t) ==
    LET users == {i \in 1..Len(dbMessages[t]) : dbMessages[t][i].role = "user"}
        last == CHOOSE i \in users : \A j \in users : j <= i
    IN  dbMessages[t][last].content

\* C30: after a turn whose evaluation asked for a follow-up, the saved record
\* of the current topic has complete = FALSE and a follow_ups list that is
\* the one before with the user's message appended (the one-element list
\* when there was no record), and the records of the other topics are as
\* before; after a turn whose evaluation accepted the answer, the saved
\* record of the current topic has complete = TRUE and the message as answer.
C30_FollowUpAppends ==
    \A t \in ThreadIds :
        LET i == lastRun.pre.current_theme_index
            name == ThemeNames[i + 1]
            before == lastRun.pre.theme_responses
            saved == checkpoint[t]
        IN  /\ FollowUpTurn(t)
               => /\ response.status = 200
                  /\ saved # NoState
                  /\ name \in DOMAIN saved.theme_responses
                  /\ ~saved.theme_responses[name].complete
                  /\ saved.theme_responses[name].follow_ups =
                        IF name \in DOMAIN before
                        THEN Append(before[name].follow_ups, LastUserMessage(t))
                        ELSE <<LastUserMessage(t)>>
                  /\ \A other \in DOMAIN before \ {name} :
                        /\ other \in DOMAIN saved.theme_responses
                        /\ saved.theme_responses[other] = before[other]
            /\ AcceptedTopic(t, i)
               => /\ saved # NoState
                  /\ name \in DOMAIN saved.theme_responses
                  /\ saved.theme_responses[name].complete
                  /\ saved.theme_responses[name].answer = LastUserMessage(t)

\* ------------------------------------- the model's recommended next topic
\* SurveyEvaluationResponse.next_theme_index is Optional[int]: the model may
\* leave it out or name any index, the sentinel -1 included.
AdvisedIndexes == {None} \cup (NO_MORE_THEMES..MaxThemes)

AdvisedOutcomes ==
    [kind : {"ok"}, is_answer_complete : BOOLEAN, needs_follow_up : BOOLEAN,
     next_theme_index : AdvisedIndexes]

\* one stored state of thread 1 and two evaluations of the same answer that
\* differ at most in the index the model recommended
InitAdvice ==
    /\ InitInterview
    /\ gen = IdleGen /\ fix = IdleFix /\ conc = IdleConc
    /\ InitTheme
    /\ \E s \in SurveyIds, ev1 \in AdvisedOutcomes, ev2 \in AdvisedOutcomes :
          /\ ev1.is_answer_complete = ev2.is_answer_complete
          /\ ev1.needs_follow_up = ev2.needs_follow_up
          /\ \E pr \in StoredProgress(s) :
                stage = [phase |-> "advice", state |-> StoredState(1, s, pr),
                         ev1 |-> ev1, ev2 |-> ev2]

\* what one survey_chat turn on the stored state gives with evaluation ev:
\* the stage's update, the run (stages entered, saved state) and the response
AdvisedTurn(state, ev) ==
    LET turn == SurveyTurn(1, state.survey_id, StoredHistory, state, "a", 0, ev,
                           [kind |-> "ok", text |-> GeneratedQuestion])
    IN  [node |-> evaluation_node(GraphInput(1, state.survey_id, "a",
                                             Append(StoredHistory, Row("user", "a")), state),
                                  ev),
         path |-> turn.path, checkpoint |-> turn.checkpoint, response |-> turn.response]

apply_evaluation_twice ==
    /\ stage.phase = "advice"
    /\ stage' = [phase |-> "advised", state |-> stage.state, ev1 |-> stage.ev1,
                 ev2 |-> stage.ev2, first |-> AdvisedTurn(stage.state, stage.ev1),
                 second |-> AdvisedTurn(stage.state, stage.ev2)]
    /\ UNCHANGED <<interviewVars, themeVars, gen, fix, conc>>

NextAdvice == apply_evaluation_twice

SpecAdvice == InitAdvice /\ [][NextAdvice]_vars

\* C31: two turns from the same state whose evaluations agree on
\* is_answer_complete and needs_follow_up and differ in the recommended
\* next_theme_index give the same stage update, enter the same stages, save
\* the same state and answer the caller the same.
C31_AdviceIsIgnored ==
    stage.phase = "advised" => stage.first = stage.second

\* two evaluations recommending different indexes, on a state where the
\* evaluation stage returned an update
C31_Witness ==
    /\ stage.phase = "advised"
    /\ stage.ev1.next_theme_index # stage.ev2.next_theme_index
    /\ ~stage.first.node.raised
    /\ stage.first.node.update.next_theme_index = NO_MORE_THEMES

\* ------------------------------------ one structured-output generation call
\* The provider chain followed by the agent's parser: self.chain of the
\* refiner and of the evaluation (llm | fix_parser), and _generate_themes of
\* the generator (the chain's answer handed to self.output_parser.parse).
StructuredAgents == {"theme_generator", "theme_refiner", "evaluation"}

\* a provider, or the fixer model, that always answers or always fails
SteadyScripts == {[i \in 1..MaxScript |-> v] : v \in {"ok", "fail"}}

InitCall ==
    /\ InitInterview
    /\ InitTheme /\ stage = IdleStage /\ conc = IdleConc
    /\ \E a \in StructuredAgents, p \in SteadyScripts, f \in SteadyScripts,
          c \in Completions, r \in SteadyScripts :
          /\ gen = [agent |-> a, phase |-> "primary", primary |-> p, secondary |-> f,
                    primary_attempts |-> 0, secondary_attempts |-> 0, result |-> "none"]
          /\ fix = [agent |-> a, phase |-> "waiting", completions |-> c, repairs |-> r,
                    retries |-> 0, repair_calls |-> 0, result |-> "none"]

\* the provider chain returned its answer and the parser is handed it; a
\* chain that raised leaves the call without any parsing
chain_returned ==
    /\ gen.phase = "done" /\ fix.phase = "waiting"
    /\ fix' = IF gen.result = "error"
              THEN [fix EXCEPT !.phase = "done", !.result = "provider_error"]
              ELSE IF fix.agent \in FixAgents
              THEN [fix EXCEPT !.phase = "parse"]
              ELSE [fix EXCEPT !.phase = "output_parser"]
    /\ UNCHANGED <<interviewVars, themeVars, gen, stage, conc>>

\* self.output_parser.parse(response.content) of _generate_themes: a
\* PydanticOutputParser, whose failure the except clause turns into the
\* stage's theme_generation_error
output_parser_parse ==
    /\ fix.phase = "output_parser"
    /\ fix' = IF Parses(fix.completions, 1)
              THEN [fix EXCEPT !.phase = "done", !.result = "parsed"]
              ELSE [fix EXCEPT !.phase = "done", !.result = "OutputParserException"]
    /\ UNCHANGED <<interviewVars, themeVars, gen, stage, conc>>

NextCall ==
    \/ primary_attempt
    \/ secondary_attempt
    \/ chain_returned
    \/ output_parser_parse
    \/ parse_completion
    \/ repair_call

SpecCall == InitCall /\ [][NextCall]_vars

\* C32: in a structured-output call of the generation, refinement or
\* evaluation stage, once the provider's answer is being parsed no attempt
\* of either provider is made any more (a parse failure does not reach the
\* secondary provider), a first answer that does not parse is followed by
\* the repair call, and the call gives up on the format only after at least
\* one repair call.
C32_ParseFailureRepairs ==
    [][ /\ fix.phase \notin {"waiting", "idle"} => gen' = gen
        /\ (fix.phase \in {"parse", "output_parser"} /\ fix.retries = 0
              /\ ~Parses(fix.completions, 1))
           => fix'.phase = "repair"
        /\ fix'.result = "OutputParserException" => fix'.repair_calls >= 1 ]_vars

\* C33: a turn writes its messages and topics to the database only once its
\* graph run has succeeded: a turn that does not answer 200 leaves the
\* interview thread's rows, and the theme survey's rows and topics, as they
\* were before the call.
C33_SavedAfterSuccess ==
    [][ /\ \A t \in ThreadIds :
              (InterviewTurnFor(t) /\ response'.status # 200)
              => dbMessages'[t] = dbMessages[t]
        /\ \A s \in SessionIds :
              (ThemeTurnFor(s) /\ response'.status # 200)
              => themeDb'[s] = themeDb[s] ]_vars

\* the flags a turn derives
Flags == {"is_answer_complete", "needs_follow_up", "all_themes_complete", "survey_complete"}

\* the stages of the run so far whose returned update contains the field
Writers(field) ==
    {stage.written[i].node : i \in {j \in 1..Len(stage.written) :
                                       field \in stage.written[j].fields}}

C36_EvaluationCursorInRange ==
    /\ lastRun.failure # "IndexError"
    /\ \A t \in ThreadIds :
          dbThreads[t] # NoThread
          => \A k \in 1..Len(cursorLog[t]) :
                cursorLog[t][k] \in 0..(ThemeCount(dbThreads[t]) - 1)

\* a second turn on a thread whose first turn left a checkpoint, with the
\* evaluation stage entered
C36_Witness ==
    \E t \in ThreadIds :
        /\ lastRun.thread = t /\ ~lastRun.first
        /\ lastRun.path = <<"start", "evaluation">>
        /\ Len(cursorLog[t]) = 2
        /\ checkpoint[t] # NoState

\* the number of topics ThemeRefinerResponse allows at most
REFINER_MAX_THEMES == 10

\* C37: per survey id of the theme workflow, a chat turn that succeeds
\* leaves between 1 and 10 topics in the checkpoint, topics once stored stay
\* stored, and every chat turn on a survey whose checkpoint holds topics runs
\* the refinement stage and neither the analysis nor the generation stage.
C37_GenerationOnlyOnce ==
    [][ \A s \in SessionIds :
          ThemeTurnFor(s)
          => /\ response'.status = 200
                => /\ HasTopics(themeCheckpoint'[s])
                   /\ Len(themeCheckpoint'[s].themes) \in 1..REFINER_MAX_THEMES
             /\ HasTopics(themeCheckpoint[s])
                => /\ HasTopics(themeCheckpoint'[s])
                   /\ Len(themeRun'.path) >= 2
                   /\ themeRun'.path[2] = "theme_refiner"
                   /\ StagesOf(themeRun'.path) \cap {"company_analyzer", "theme_generator"} = {} ]_vars

\* ------------------------------------------ DatabaseManager.get_connection
\* One use of the context manager: `async with db.get_connection() as conn:`
\* followed by the caller's block. get_connection is an async generator
\* under @asynccontextmanager: its yield sits inside the try of the retry
\* loop, so an exception of the caller's block is thrown into the generator
\* at the yield and reaches the same except clause as a failed acquisition.
DB_MAX_RETRIES == 3

\* what self.pool.connection() does on each attempt
PoolScripts == [1..DB_MAX_RETRIES -> {"ok", "fail"}]

\* what the caller's block does with the connection
BlockOutcomes == {"ok", "raise_db", "raise_other"}

InitDb ==
    /\ InitInterview
    /\ gen = IdleGen /\ fix = IdleFix /\ conc = IdleConc
    /\ InitTheme
    /\ \E pool \in PoolScripts, block \in BlockOutcomes :
          stage = [phase |-> "db", pc |-> "acquire", attempt |-> 0, pool |-> pool,
                   block |-> block, attempts |-> 0, yields |-> 0, sleeps |-> <<>>,
                   thrown |-> FALSE, result |-> "none"]

\* async with self.pool.connection() as conn: yield conn. A generator that
\* yields again after the block's exception was thrown into it makes
\* contextlib raise RuntimeError("generator didn't stop after athrow()").
pool_connection ==
    /\ stage.phase = "db" /\ stage.pc = "acquire"
    /\ stage' =
         IF stage.pool[stage.attempt + 1] = "fail"
         THEN [stage EXCEPT !.attempts = @ + 1, !.pc = "except"]
         ELSE IF stage.thrown
         THEN [stage EXCEPT !.attempts = @ + 1, !.yields = @ + 1, !.pc = "done",
                            !.result = "RuntimeError"]
         ELSE [stage EXCEPT !.attempts = @ + 1, !.yields = @ + 1, !.pc = "block"]
    /\ UNCHANGED <<interviewVars, themeVars, gen, fix, conc>>

\* the caller's block: when it completes the generator resumes and returns;
\* when it raises, the exception is thrown into the generator at the yield
caller_block ==
    /\ stage.phase = "db" /\ stage.pc = "block"
    /\ stage' = IF stage.block = "ok"
                THEN [stage EXCEPT !.pc = "done", !.result = "ok"]
                ELSE [stage EXCEPT !.pc = "except", !.thrown = TRUE]
    /\ UNCHANGED <<interviewVars, themeVars, gen, fix, conc>>

\* except Exception as e: raise on the last attempt, else sleep
\* retry_delay * 2 ** attempt and go round the loop
except_clause ==
    /\ stage.phase = "db" /\ stage.pc = "except"
    /\ stage' = IF stage.attempt = DB_MAX_RETRIES - 1
                THEN [stage EXCEPT !.pc = "done", !.result = "DatabaseConnectionError"]
                ELSE [stage EXCEPT !.pc = "acquire", !.attempt = @ + 1,
                                   !.sleeps = Append(@, 2 ^ stage.attempt)]
    /\ UNCHANGED <<interviewVars, themeVars, gen, fix, conc>>

NextDb == pool_connection \/ caller_block \/ except_clause

SpecDb == InitDb /\ [][NextDb]_vars

\* C38: one use of get_connection makes at most 3 acquisition attempts,
\* sleeps once after each failed attempt but the last, hands a connection
\* over at most once, also when the caller's block raises, and ends in
\* DatabaseConnectionError only when all 3 attempts failed to acquire.
C38_ConnectionRetry ==
    stage.phase = "db"
    => /\ stage.attempts <= DB_MAX_RETRIES
       /\ stage.yields <= 1
       /\ Len(stage.sleeps) <= DB_MAX_RETRIES - 1
       /\ stage.result = "DatabaseConnectionError"
             => /\ stage.attempts = DB_MAX_RETRIES
                /\ \A i \in 1..DB_MAX_RETRIES : stage.pool[i] = "fail"
       /\ (stage.pc = "done" /\ stage.block = "ok"
             /\ \E i \in 1..DB_MAX_RETRIES : stage.pool[i] = "ok")
          => stage.result = "ok"

====
